---- MODULE Spec2Model ----
(***************************************************************************)
(* Model of the TaskNotes Alfred workflow's cache store (src/src/cache.py)  *)
(* and of the stale-while-revalidate task cache controller                  *)
(* (_fetch_tasks_with_cache in src/src/list_or_parse_task.py).              *)
(*                                                                          *)
(* Spec      : invocations of the controller one after the other, each a    *)
(*             whole run of _fetch_tasks_with_cache against the two files.  *)
(* SpecRead  : get_cache_status applied to arbitrary file contents.         *)
(* SpecRace  : two overlapping invocations that both mark the refresh as    *)
(*             requested, next to the same two invocations run serially.    *)
(* SpecFS    : the inner steps of write_json_file / read_json_file on one   *)
(*             destination path.                                            *)
(* SpecParse : parse_create_input (src/src/nlp_task_create.py), one loop    *)
(*             iteration at a time.                                         *)
(* SpecCal   : the calendar functions of nlp_task_create.py, one call at    *)
(*             a time.                                                      *)
(* SpecOverlap: two invocations whose fetches overlap.                      *)
(* SpecLive  : the invocations of the controller for ever, with fairness.   *)
(***************************************************************************)
EXTENDS Integers, Sequences, FiniteSets, TLC

(***************************************************************************)
(* Bounds and tunables                                                      *)
(***************************************************************************)
\* Number of clock ticks explored after the first invocation.
MaxTime == 6

\* Number of invocations followed after the two racing ones (SpecRace).
MaxFollow == 3

\* Number of write() calls json.dump needs for one document (SpecFS).
DocChunks == 2

\* Number of inodes the file system hands out (SpecFS).
MaxInodes == 3

\* Environment tunables of the controller, scaled down from the defaults
\* 5 / 600 / 5 (they are read from the environment, ttl = backoff < maxStale).
TASK_CACHE_TTL_SECONDS == 2
TASK_CACHE_MAX_STALE_SECONDS == 4
TASK_CACHE_REFRESH_BACKOFF_SECONDS == 2

\* time.time() is seconds since the epoch: far larger than any tunable, so
\* that a last_attempt of 0 (absent) is always outside the backoff window.
StartTime == TASK_CACHE_MAX_STALE_SECONDS + TASK_CACHE_REFRESH_BACKOFF_SECONDS + 1

(***************************************************************************)
(* JSON values as json.load / json.dump see them                            *)
(***************************************************************************)
None == [k |-> "null"]
Num(n) == [k |-> "num", v |-> n]
Bool(b) == [k |-> "bool", v |-> b]
Str(s) == [k |-> "str", v |-> s]
List(s) == [k |-> "list", v |-> s]
Dict(f) == [k |-> "dict", v |-> f]
EmptyDict == Dict([x \in {} |-> None])

\* Python truthiness, as used by `x or {}` and bool(x).
Truthy(j) ==
  CASE j.k = "null" -> FALSE
    [] j.k = "num"  -> j.v # 0
    [] j.k = "bool" -> j.v
    [] j.k = "str"  -> j.v # ""
    [] j.k = "list" -> Len(j.v) > 0
    [] j.k = "dict" -> DOMAIN j.v # {}

\* `x or {}`
OrEmptyDict(j) == IF Truthy(j) THEN j ELSE EmptyDict

\* d.get(key, default): only dicts have .get (AttributeError otherwise).
HasGet(j) == j.k = "dict"
DictGet(d, key, default) == IF key \in DOMAIN d.v THEN d.v[key] ELSE default

\* d[key] = value on a dict.
DictSet(d, key, value) ==
  Dict([x \in DOMAIN d.v \cup {key} |-> IF x = key THEN value ELSE d.v[x]])

\* isinstance(x, (int, float)): bool is a subclass of int.
IsNumber(j) == j.k \in {"num", "bool"}

\* float(x): numbers convert, the strings of the model are not numeric
\* (ValueError), containers and None raise TypeError.
CanFloat(j) == IsNumber(j)
ToFloat(j) == IF j.k = "num" THEN j.v ELSE IF j.v THEN 1 ELSE 0

(***************************************************************************)
(* Files                                                                    *)
(***************************************************************************)
Missing == [kind |-> "missing"]
Unreadable == [kind |-> "unreadable"]
Corrupt == [kind |-> "corrupt"]
JsonFile(j) == [kind |-> "json", val |-> j]

\* read_json_file: the parsed document, None on any error.
read_json_file(f) == IF f.kind = "json" THEN f.val ELSE None

\* write_json_file seen from the other invocations when writers do not
\* overlap: the destination holds the dumped document after the rename.
write_json_file(data) == JsonFile(data)

\* TaskCache.load_cache / load_refresh_state
load_cache(cf) == read_json_file(cf)
load_refresh_state(sf) == OrEmptyDict(read_json_file(sf))

\* The document TaskCache.save_cache writes.
CacheDoc(ts, tasks) ==
  Dict([version |-> Num(1), timestamp |-> Num(ts), tasks |-> List(tasks)])

(***************************************************************************)
(* TaskCache.get_cache_status                                               *)
(***************************************************************************)
Raised == [raised |-> TRUE]

get_cache_status(now, cf, sf) ==
  LET cache == OrEmptyDict(load_cache(cf))
      state == load_refresh_state(sf)
  IN
  IF ~HasGet(cache) THEN Raised
  ELSE
  LET ctasks == DictGet(cache, "tasks", None)
      cts == DictGet(cache, "timestamp", None)
      shaped == ctasks.k = "list" /\ IsNumber(cts)
      tasks == IF shaped THEN SelectSeq(ctasks.v, LAMBDA t : t.k = "dict") ELSE <<>>
      has_age == shaped
      age == IF shaped THEN now - ToFloat(cts) ELSE 0
      is_usable == Len(tasks) > 0 /\ has_age /\ age <= TASK_CACHE_MAX_STALE_SECONDS
      is_fresh == is_usable /\ has_age /\ age <= TASK_CACHE_TTL_SECONDS
  IN
  IF ~HasGet(state) THEN Raised
  ELSE
  LET refresh_requested == Truthy(DictGet(state, "refresh_requested", None))
      la == DictGet(state, "last_attempt", Num(0))
      la0 == IF Truthy(la) THEN la ELSE Num(0)
  IN
  IF ~CanFloat(la0) THEN Raised
  ELSE
  LET last_attempt == ToFloat(la0)
      should_fetch ==
        ~(refresh_requested
          /\ (now - last_attempt) < TASK_CACHE_REFRESH_BACKOFF_SECONDS
          /\ is_usable)
  IN [raised |-> FALSE,
      tasks |-> tasks,
      has_age |-> has_age,
      age |-> age,
      is_fresh |-> is_fresh,
      is_usable |-> is_usable,
      refresh_requested |-> refresh_requested,
      should_fetch |-> should_fetch,
      state |-> state]

(***************************************************************************)
(* The read-modify-write helpers of TaskCache                               *)
(***************************************************************************)
\* Mutant: the request time is stamped on last_attempt.
SetRefreshRequested_StampsAttempt(state, t) ==
  DictSet(DictSet(state, "refresh_requested", Bool(TRUE)), "last_attempt", Num(t))

\* Mutant: the flag is not set, only the request time.
SetRefreshRequested_NoFlag(state, t) == DictSet(state, "requested_at", Num(t))

\* mark_refresh_requested, lines 162-163, on the loaded state.
SetRefreshRequested(state, t) ==
  DictSet(DictSet(state, "refresh_requested", Bool(TRUE)), "requested_at", Num(t))

\* Mutant: the attempt also clears the request flag.
SetFetchAttempt_ClearsFlag(state, t) ==
  DictSet(DictSet(state, "refresh_requested", Bool(FALSE)), "last_attempt", Num(t))

\* mark_fetch_attempt, line 169, on the loaded state.
SetFetchAttempt(state, t) == DictSet(state, "last_attempt", Num(t))

\* Mutant: the request flag is not cleared.
SetFetchSuccess_KeepsFlag(state, t) == DictSet(state, "last_success", Num(t))

\* mark_fetch_success, lines 176-177, on the loaded state.
SetFetchSuccess(state, t) ==
  DictSet(DictSet(state, "refresh_requested", Bool(FALSE)), "last_success", Num(t))

mark_refresh_requested(sf, t) ==
  write_json_file(SetRefreshRequested(load_refresh_state(sf), t))

mark_fetch_attempt(sf, t) ==
  write_json_file(SetFetchAttempt(load_refresh_state(sf), t))

save_cache(t, tasks) == write_json_file(CacheDoc(t, tasks))

\* mark_fetch_success: the state file after lines 175-178.
mark_fetch_success(sf, t) ==
  write_json_file(SetFetchSuccess(load_refresh_state(sf), t))

(***************************************************************************)
(* _fetch_tasks_with_cache                                                  *)
(***************************************************************************)
\* Tasks as the external API returns them (tn.task_to_dict gives dicts).
Task(id) == Dict([path |-> Str(id)])
FetchResults == {<<>>, <<Task("a")>>, <<Task("b")>>}

\* What tn.list_tasks does when it is called: a list, or an exception.
ApiFail == [ok |-> FALSE, tasks |-> <<>>]
ApiOutcomes == {ApiFail} \cup {[ok |-> TRUE, tasks |-> r] : r \in FetchResults}

RERUN == "TASK_CACHE_RERUN_SECONDS"
NoRerun == "None"

\* Mutant: the backoff branch is missing.
Case_NoBackoff(s) ==
  IF s.is_usable /\ ~s.is_fresh /\ ~s.refresh_requested THEN "case1"
  ELSE "case3"

\* Which branch of lines 540-567 an invocation with this status takes.
Case(s) ==
  IF s.is_usable /\ ~s.is_fresh /\ ~s.refresh_requested THEN "case1"
  ELSE IF ~s.should_fetch /\ s.is_usable THEN "case2"
  ELSE "case3"

\* Mutant: the stale snapshot is not served after a failure.
FetchFailed_AlwaysEmpty(s) == [tasks |-> <<>>, rerun |-> NoRerun]

\* Lines 562-567: what the except branch returns.
FetchFailed(s) ==
  IF s.is_usable THEN [tasks |-> s.tasks, rerun |-> RERUN]
  ELSE [tasks |-> <<>>, rerun |-> NoRerun]

\* One run of _fetch_tasks_with_cache that starts at time t against the files
\* cf and sf; the API answers `api` after `d` seconds when it is called.
\* The result holds the files it leaves behind and what it returns.
fetch_tasks_with_cache(cf, sf, t, api, d) ==
  LET s == get_cache_status(t, cf, sf) IN
  IF s.raised THEN
    [path |-> "raised", cf |-> cf, sf |-> sf, tasks |-> <<>>, rerun |-> NoRerun,
     calls |-> 0, end |-> t]
  ELSE IF Case(s) = "case1" THEN
    [path |-> "case1", cf |-> cf, sf |-> mark_refresh_requested(sf, t),
     tasks |-> s.tasks, rerun |-> RERUN, calls |-> 0, end |-> t]
  ELSE IF Case(s) = "case2" THEN
    [path |-> "case2", cf |-> cf, sf |-> sf,
     tasks |-> s.tasks, rerun |-> NoRerun, calls |-> 0, end |-> t]
  ELSE
    LET sf1 == mark_fetch_attempt(sf, t) IN
    IF api.ok THEN
      [path |-> "case3_ok", cf |-> save_cache(t + d, api.tasks),
       sf |-> mark_fetch_success(sf1, t + d),
       tasks |-> api.tasks, rerun |-> NoRerun, calls |-> 1, end |-> t + d]
    ELSE
      [path |-> "case3_fail", cf |-> cf, sf |-> sf1,
       tasks |-> FetchFailed(s).tasks, rerun |-> FetchFailed(s).rerun,
       calls |-> 1, end |-> t + d]

(***************************************************************************)
(* State of the controller model                                            *)
(***************************************************************************)
VARIABLES
  clock,      \* time.time()
  cacheFile,  \* tasks_cache.json
  stateFile,  \* tasks_refresh_state.json
  last,       \* history: the invocation that returned last
  lastFetch,  \* history: when tn.list_tasks was called last (-1: never)
  status,     \* SpecRead: what the last call of get_cache_status gave
  race,       \* SpecRace: the files of the racing and of the serial run
  fsDir,      \* SpecFS: directory, file name -> inode (0: no such file)
  fsData,     \* SpecFS: inode -> chunks written to it
  wr,         \* SpecFS: the callers of write_json_file
  rd,         \* SpecFS: the callers of read_json_file
  pz          \* SpecParse: one call of parse_create_input, step by step

ctlVars == <<cacheFile, stateFile, last, lastFetch>>
fsVars == <<fsDir, fsData, wr, rd>>
vars == <<clock, cacheFile, stateFile, last, lastFetch, status, race,
          fsDir, fsData, wr, rd, pz>>

\* The variables of the other specifications, at rest.
NoCall == [called |-> FALSE, raised |-> FALSE]
NoRace == [phase |-> "off"]
NoParse == [pc |-> "off"]
NoFS ==
  /\ fsDir = <<>>
  /\ fsData = <<>>
  /\ wr = <<>>
  /\ rd = <<>>

\* The part of the status the history keeps.
Seen(s) ==
  [tasks |-> s.tasks, has_age |-> s.has_age, age |-> s.age,
   is_fresh |-> s.is_fresh, is_usable |-> s.is_usable,
   refresh_requested |-> s.refresh_requested, should_fetch |-> s.should_fetch,
   last_attempt |-> ToFloat(DictGet(s.state, "last_attempt", Num(0)))]

NoInvocation ==
  [path |-> "none", prev |-> "none", now |-> 0, end |-> 0,
   seen |-> [tasks |-> <<>>, has_age |-> FALSE, age |-> 0, is_fresh |-> FALSE,
             is_usable |-> FALSE, refresh_requested |-> FALSE,
             should_fetch |-> TRUE, last_attempt |-> 0],
   ret_tasks |-> <<>>, ret_rerun |-> NoRerun, calls |-> 0, api |-> ApiFail,
   prevFetch |-> -1, prevSeen |-> "none",
   cache_changed |-> FALSE, state_changed |-> FALSE]

\* A snapshot document exists and its age is in (ttl, maxStale].
StaleAge(seen) ==
  /\ seen.has_age
  /\ TASK_CACHE_TTL_SECONDS < seen.age
  /\ seen.age <= TASK_CACHE_MAX_STALE_SECONDS

\* History: what kind of snapshot an invocation found with no refresh
\* requested ("stale": non-empty, "stale_empty": no task in it).
Kind(seen) ==
  IF StaleAge(seen) /\ ~seen.refresh_requested
  THEN IF Len(seen.tasks) > 0 THEN "stale" ELSE "stale_empty"
  ELSE "other"

Init ==
  /\ clock = StartTime
  /\ cacheFile = Missing
  /\ stateFile = Missing
  /\ last = NoInvocation
  /\ lastFetch = -1
  /\ status = NoCall
  /\ pz = NoParse
  /\ race = NoRace
  /\ NoFS

\* The launcher runs the script filter once: one whole run of
\* _fetch_tasks_with_cache (lines 516-567).
Invocation ==
  \E api \in ApiOutcomes, d \in 0 .. 1 :
    /\ clock + d <= StartTime + MaxTime
    /\ LET s == get_cache_status(clock, cacheFile, stateFile)
           r == fetch_tasks_with_cache(cacheFile, stateFile, clock, api, d)
       IN
       /\ ~s.raised
       /\ r.calls = 0 => (api = ApiFail /\ d = 0)
       /\ cacheFile' = r.cf
       /\ stateFile' = r.sf
       /\ clock' = r.end
       /\ lastFetch' = IF r.calls > 0 THEN clock ELSE lastFetch
       /\ last' = [path |-> r.path, prev |-> last.path, now |-> clock,
                   end |-> r.end, seen |-> Seen(s),
                   ret_tasks |-> r.tasks, ret_rerun |-> r.rerun,
                   calls |-> r.calls, api |-> api, prevFetch |-> lastFetch,
                   prevSeen |-> IF last.path = "none" THEN "none"
                                ELSE Kind(last.seen),
                   cache_changed |-> r.cf # cacheFile,
                   state_changed |-> r.sf # stateFile]
    /\ UNCHANGED <<status, race, fsVars, pz>>

\* Wall-clock time passes between two invocations.
Tick ==
  /\ clock < StartTime + MaxTime
  /\ clock' = clock + 1
  /\ UNCHANGED <<ctlVars, status, race, fsVars, pz>>

Next == Invocation \/ Tick

Spec == Init /\ [][Next]_vars

TypeOK ==
  /\ clock \in StartTime .. StartTime + MaxTime
  /\ last.calls \in 0 .. 1

(***************************************************************************)
(* Claims about the controller                                              *)
(***************************************************************************)
Returned == last.path # "none"

\* refresh_requested as the refresh-state file holds it now.
FileRefreshRequested ==
  Truthy(DictGet(load_refresh_state(stateFile), "refresh_requested", None))

\* The invocation ran inside the backoff window of the last attempt it saw.
InBackoff == last.now - last.seen.last_attempt < TASK_CACHE_REFRESH_BACKOFF_SECONDS

ServedSnapshot(rerun) ==
  /\ last.calls = 0
  /\ last.ret_tasks = last.seen.tasks
  /\ last.ret_rerun = rerun

\* C1 as stated: an invocation that finds a snapshot with ttl < age <=
\* maxStale and no refresh requested sets refresh_requested, does not fetch
\* and returns the snapshot's tasks with a re-run signal; the invocation right
\* after it, when inside the backoff window, returns the snapshot's tasks
\* with no re-run signal and does not fetch.
C1_StalePathAsStated ==
  /\ (Returned /\ Kind(last.seen) # "other")
       => (ServedSnapshot(RERUN) /\ FileRefreshRequested)
  /\ (Returned /\ last.prevSeen \in {"stale", "stale_empty"} /\ InBackoff)
       => ServedSnapshot(NoRerun)

\* C1 amended: the same for a non-empty snapshot, and for a second invocation
\* that is inside the backoff window and still finds the snapshot usable.
C1_StalePath ==
  /\ (Returned /\ Kind(last.seen) = "stale")
       => (ServedSnapshot(RERUN) /\ FileRefreshRequested)
  /\ (Returned /\ last.prevSeen = "stale" /\ InBackoff
        /\ Len(last.seen.tasks) > 0 /\ last.seen.has_age
        /\ last.seen.age <= TASK_CACHE_MAX_STALE_SECONDS)
       => (ServedSnapshot(NoRerun) /\ ~last.state_changed /\ ~last.cache_changed)

\* Witness of C1: a stale non-empty snapshot was marked, and the next
\* invocation ran inside the backoff window.
C1_Witness ==
  /\ last.prevSeen = "stale"
  /\ InBackoff
  /\ last.seen.is_usable
  /\ last.seen.refresh_requested
  /\ last.path = "case2"

\* C2: an invocation that finds a fresh snapshot (non-empty, age < ttl)
\* returns the tasks of that snapshot without fetching and with no re-run
\* signal, whatever the refresh state holds.
C2_FreshServesSnapshot ==
  (Returned /\ Len(last.seen.tasks) > 0 /\ last.seen.has_age
     /\ last.seen.age < TASK_CACHE_TTL_SECONDS)
    => ServedSnapshot(NoRerun)

\* C3: an invocation calls the task listing at most once, and two calls of
\* the task listing are never closer together than the refresh backoff.
C3_FetchRate ==
  /\ last.calls <= 1
  /\ (last.calls = 1 /\ last.prevFetch >= 0)
       => last.now - last.prevFetch >= TASK_CACHE_REFRESH_BACKOFF_SECONDS

\* C6: when the task listing fails, nothing is raised; the invocation
\* returns the tasks of the snapshot it read with a re-run signal if that
\* snapshot was usable, and an empty list with no re-run signal otherwise.
C6_FetchFailure ==
  (last.calls = 1 /\ ~last.api.ok) =>
    /\ last.path # "raised"
    /\ (Len(last.seen.tasks) > 0 /\ last.seen.has_age
         /\ last.seen.age <= TASK_CACHE_MAX_STALE_SECONDS)
        => (last.ret_tasks = last.seen.tasks /\ last.ret_rerun = RERUN)
    /\ ~(Len(last.seen.tasks) > 0 /\ last.seen.has_age
         /\ last.seen.age <= TASK_CACHE_MAX_STALE_SECONDS)
        => (last.ret_tasks = <<>> /\ last.ret_rerun = NoRerun)

\* Witness of C6: a failed fetch over a usable snapshot.
C6_Witness ==
  /\ last.calls = 1
  /\ ~last.api.ok
  /\ last.seen.is_usable
  /\ last.ret_rerun = RERUN

C8_BackoffRule ==
  (Returned /\ last.seen.refresh_requested /\ InBackoff
     /\ Len(last.seen.tasks) > 0 /\ last.seen.has_age
     /\ last.seen.age <= TASK_CACHE_MAX_STALE_SECONDS)
    => (ServedSnapshot(NoRerun) /\ ~last.cache_changed /\ ~last.state_changed)

\* Witness of C8: the backoff rule applied one second after the attempt.
C8_Witness ==
  /\ Returned
  /\ last.seen.refresh_requested
  /\ last.now = last.seen.last_attempt + 1
  /\ last.seen.is_usable
  /\ last.path = "case2"
  /\ last.prev = "case2"

(***************************************************************************)
(* SpecRead: get_cache_status over arbitrary file contents                  *)
(***************************************************************************)
\* Contents tasks_cache.json can have on disk: absent, unreadable, not JSON,
\* JSON of another shape, fields of another type, and what save_cache writes.
CacheContents ==
  {Missing, Unreadable, Corrupt,
   JsonFile(None), JsonFile(EmptyDict), JsonFile(List(<<>>)),
   JsonFile(List(<<Num(1)>>)), JsonFile(Str("x")), JsonFile(Num(3)),
   JsonFile(Bool(TRUE)),
   JsonFile(Dict([tasks |-> Str("x"), timestamp |-> Num(StartTime)])),
   JsonFile(Dict([tasks |-> List(<<Task("a")>>), timestamp |-> Str("x")])),
   JsonFile(Dict([tasks |-> List(<<Task("a")>>)])),
   JsonFile(Dict([tasks |-> List(<<Num(1), Task("a")>>),
                  timestamp |-> Num(StartTime)])),
   JsonFile(CacheDoc(StartTime, <<>>)),
   JsonFile(CacheDoc(StartTime, <<Task("a")>>))}

\* Contents tasks_refresh_state.json can have on disk.
StateContents ==
  {Missing, Unreadable, Corrupt,
   JsonFile(None), JsonFile(EmptyDict), JsonFile(List(<<Num(1)>>)),
   JsonFile(Str("x")), JsonFile(Num(3)),
   JsonFile(Dict([refresh_requested |-> Str("yes")])),
   JsonFile(Dict([refresh_requested |-> Bool(TRUE),
                  last_attempt |-> Str("x")])),
   JsonFile(Dict([refresh_requested |-> Bool(TRUE),
                  last_attempt |-> List(<<Num(1)>>)])),
   JsonFile(Dict([refresh_requested |-> Bool(TRUE), last_attempt |-> None])),
   JsonFile(SetFetchAttempt(SetRefreshRequested(EmptyDict, StartTime),
                            StartTime))}

InitRead ==
  /\ clock = StartTime
  /\ cacheFile \in CacheContents
  /\ stateFile \in StateContents
  /\ last = NoInvocation
  /\ lastFetch = -1
  /\ status = NoCall
  /\ pz = NoParse
  /\ race = NoRace
  /\ NoFS

\* A caller runs cache.get_cache_status() (lines 116-157).
GetCacheStatus ==
  /\ ~status.called
  /\ LET s == get_cache_status(clock, cacheFile, stateFile) IN
     status' = IF s.raised THEN [called |-> TRUE, raised |-> TRUE]
               ELSE [called |-> TRUE, raised |-> FALSE, tasks |-> s.tasks,
                     has_age |-> s.has_age, is_usable |-> s.is_usable,
                     is_fresh |-> s.is_fresh,
                     refresh_requested |-> s.refresh_requested,
                     should_fetch |-> s.should_fetch]
  /\ UNCHANGED <<clock, ctlVars, race, fsVars, pz>>

NextRead == GetCacheStatus \/ Tick

SpecRead == InitRead /\ [][NextRead]_vars

\* The file holds what the program itself writes there: a JSON object.
UsableContent(f) == f.kind = "json" /\ f.val.k = "dict"

\* C9: whatever the two files hold, get_cache_status does not raise, and a
\* file whose content is unusable counts as a file never written: no tasks,
\* no age, not usable (snapshot), no refresh requested (refresh state).
C9_ReadFailuresAreMisses ==
  status.called =>
    /\ ~status.raised
    /\ ~UsableContent(cacheFile) =>
         (status.tasks = <<>> /\ ~status.has_age /\ ~status.is_usable)
    /\ ~UsableContent(stateFile) => ~status.refresh_requested

(***************************************************************************)
(* SpecRace: the refresh-state race next to the serial runs                 *)
(***************************************************************************)
\* Invocations A and B overlap: both have found a usable stale snapshot with
\* no refresh requested (line 541) before either has saved the state.
\*   race.rcf, race.rsf : the files of that run;
\*   race.scf, race.ssf : the files where A returned before B started;
\*   race.ocf, race.osf : the files where A ran and B did not run at all;
\*   race.rn, race.sn, race.on : calls of tn.list_tasks since A started;
\*   race.pc, race.t, race.loaded : where A and B are in
\*   mark_refresh_requested, the time each read, the state each loaded.
Racers == {"A", "B"}

InitRace ==
  /\ clock = StartTime
  /\ cacheFile = Missing
  /\ stateFile = Missing
  /\ last = NoInvocation
  /\ lastFetch = -1
  /\ status = NoCall
  /\ pz = NoParse
  /\ race = [phase |-> "before",
             rcf |-> Missing, rsf |-> Missing, rn |-> 0,
             scf |-> Missing, ssf |-> Missing, sn |-> 0,
             ocf |-> Missing, osf |-> Missing, on |-> 0,
             pc |-> [p \in Racers |-> "idle"],
             t |-> [p \in Racers |-> 0],
             loaded |-> [p \in Racers |-> EmptyDict],
             k |-> 0]
  /\ NoFS

\* Before the race: invocations one after the other (lines 516-567).
RaceBefore ==
  /\ race.phase = "before"
  /\ \E api \in ApiOutcomes :
       LET r == fetch_tasks_with_cache(race.rcf, race.rsf, clock, api, 0) IN
       /\ r.path # "raised"
       /\ r.calls = 0 => api = ApiFail
       /\ race' = [race EXCEPT !.rcf = r.cf, !.rsf = r.sf,
                               !.scf = r.cf, !.ssf = r.sf,
                               !.ocf = r.cf, !.osf = r.sf]
  /\ UNCHANGED <<clock, ctlVars, status, fsVars, pz>>

\* A and B both run lines 530-541 and take case 1.  In the serial run A
\* returns and B then runs as a whole.
RaceObserve ==
  /\ race.phase = "before"
  /\ LET s == get_cache_status(clock, race.rcf, race.rsf) IN
     /\ ~s.raised
     /\ Case(s) = "case1"
  /\ \E api \in ApiOutcomes :
       LET a == fetch_tasks_with_cache(race.scf, race.ssf, clock, ApiFail, 0)
           b == fetch_tasks_with_cache(a.cf, a.sf, clock, api, 0)
       IN
       /\ b.calls = 0 => api = ApiFail
       /\ race' = [race EXCEPT !.phase = "racing",
                               !.pc = [p \in Racers |-> "load"],
                               !.scf = b.cf, !.ssf = b.sf,
                               !.sn = a.calls + b.calls]
  /\ UNCHANGED <<clock, ctlVars, status, fsVars, pz>>

\* mark_refresh_requested, lines 161-163, by one of the two.
RaceLoad(p) ==
  /\ race.phase = "racing"
  /\ race.pc[p] = "load"
  /\ race' = [race EXCEPT
       !.pc[p] = "save",
       !.t[p] = clock,
       !.loaded[p] = SetRefreshRequested(load_refresh_state(race.rsf), clock)]
  /\ UNCHANGED <<clock, ctlVars, status, fsVars, pz>>

\* mark_refresh_requested, line 164, by one of the two; where only A runs it
\* is A's call of mark_refresh_requested.
RaceSave(p) ==
  /\ race.phase = "racing"
  /\ race.pc[p] = "save"
  /\ LET pc1 == [race.pc EXCEPT ![p] = "done"] IN
     race' = [race EXCEPT
       !.pc = pc1,
       !.rsf = write_json_file(race.loaded[p]),
       !.osf = IF p = "A" THEN mark_refresh_requested(race.osf, race.t[p])
               ELSE @,
       !.phase = IF \A q \in Racers : pc1[q] = "done" THEN "after" ELSE @]
  /\ UNCHANGED <<clock, ctlVars, status, fsVars, pz>>

\* A following invocation, the same in the three runs: same time, same
\* answer of the API if it is asked.
RaceFollow ==
  /\ race.phase = "after"
  /\ race.k < MaxFollow
  /\ \E api \in ApiOutcomes :
       LET r == fetch_tasks_with_cache(race.rcf, race.rsf, clock, api, 0)
           q == fetch_tasks_with_cache(race.scf, race.ssf, clock, api, 0)
           o == fetch_tasks_with_cache(race.ocf, race.osf, clock, api, 0)
       IN
       /\ (r.calls = 0 /\ q.calls = 0 /\ o.calls = 0) => api = ApiFail
       /\ race' = [race EXCEPT !.rcf = r.cf, !.rsf = r.sf, !.rn = @ + r.calls,
                               !.scf = q.cf, !.ssf = q.sf, !.sn = @ + q.calls,
                               !.ocf = o.cf, !.osf = o.sf, !.on = @ + o.calls,
                               !.k = @ + 1]
  /\ UNCHANGED <<clock, ctlVars, status, fsVars, pz>>

NextRace ==
  \/ RaceBefore
  \/ RaceObserve
  \/ \E p \in Racers : RaceLoad(p) \/ RaceSave(p)
  \/ RaceFollow
  \/ Tick

SpecRace == InitRace /\ [][NextRace]_vars

SameButRequestedAt(f, g) ==
  LET x == load_refresh_state(f)
      y == load_refresh_state(g)
  IN /\ DOMAIN x.v = DOMAIN y.v
     /\ \A key \in DOMAIN x.v \ {"requested_at"} : x.v[key] = y.v[key]

Writers == {"w1", "w2"}
Readers == {"r1"}

\* The text json.dump produces for a document reaches the file in
\* DocChunks pieces; a hole is what a write past the end leaves before it.
Chunk(d, i) == [doc |-> d, i |-> i]
Hole == [doc |-> "hole", i |-> 0]
Doc(d) == [i \in 1 .. DocChunks |-> Chunk(d, i)]
Documents == {Doc(d) : d \in Writers \cup {"old"}}

\* Line 48: tmp = f"{path}.tmp", the same name for every caller.
TmpName == "tmp"
PathName == "path"

\* What a process that opens the destination now would find in it.
Dest ==
  IF fsDir[PathName] = 0 THEN [exists |-> FALSE, content |-> <<>>]
  ELSE [exists |-> TRUE, content |-> fsData[fsDir[PathName]]]

DestAfter(dir, data) ==
  IF dir[PathName] = 0 THEN [exists |-> FALSE, content |-> <<>>]
  ELSE [exists |-> TRUE, content |-> data[dir[PathName]]]

\* write() of one piece at a file offset: the file grows, with a hole if the
\* offset is past its end.
WriteAt(content, off, c) ==
  [i \in 1 .. (IF off > Len(content) THEN off ELSE Len(content)) |->
     IF i = off THEN c
     ELSE IF i <= Len(content) THEN content[i] ELSE Hole]

\* json.load on the text read: the document if the text is one, a
\* JSONDecodeError if it is cut short or has a hole; a text made of pieces of
\* several documents parses or not, depending on the documents.
ParseOutcomes(content) ==
  IF content \in Documents THEN {[kind |-> "doc", content |-> content]}
  ELSE IF Len(content) = DocChunks
          /\ \A i \in 1 .. DocChunks : content[i].i = i
       THEN {[kind |-> "absent", content |-> <<>>],
             [kind |-> "mixed", content |-> content]}
  ELSE {[kind |-> "absent", content |-> <<>>]}

IdleWriter == [pc |-> "idle", fd |-> 0, off |-> 1, touched |-> FALSE]
IdleReader ==
  [pc |-> "idle", fd |-> 0, got |-> [kind |-> "absent", content |-> <<>>],
   raw |-> [exists |-> FALSE, content |-> <<>>]]

InitFS ==
  /\ clock = StartTime
  /\ cacheFile = Missing
  /\ stateFile = Missing
  /\ last = NoInvocation
  /\ lastFetch = -1
  /\ status = NoCall
  /\ pz = NoParse
  /\ race = NoRace
  /\ fsData = <<Doc("old")>>
  /\ \E ino \in {0, 1} : fsDir = [path |-> ino, tmp |-> 0]
  /\ wr = [w \in Writers |-> IdleWriter]
  /\ rd = [r \in Readers |-> IdleReader]

FSFrame == UNCHANGED <<clock, ctlVars, status, race, pz>>

\* A step of writer w that leaves dir and data: did it change what the
\* destination holds?
Touch(w, dir, data) == wr[w].touched \/ DestAfter(dir, data) # Dest

\* Line 49: open(tmp, "w") creates the file or truncates the existing one.
WOpen(w) ==
  /\ wr[w].pc = "idle"
  /\ IF fsDir[TmpName] # 0
     THEN /\ fsData' = [fsData EXCEPT ![fsDir[TmpName]] = <<>>]
          /\ fsDir' = fsDir
     ELSE /\ Len(fsData) < MaxInodes
          /\ fsData' = Append(fsData, <<>>)
          /\ fsDir' = [fsDir EXCEPT ![TmpName] = Len(fsData) + 1]
  /\ wr' = [wr EXCEPT ![w] = [pc |-> "write", fd |-> fsDir'[TmpName], off |-> 1,
                              touched |-> Touch(w, fsDir', fsData')]]
  /\ UNCHANGED rd
  /\ FSFrame

\* Line 50: json.dump writes the next piece through the open file.
WWrite(w) ==
  /\ wr[w].pc = "write"
  /\ fsData' = [fsData EXCEPT ![wr[w].fd] = WriteAt(@, wr[w].off, Chunk(w, wr[w].off))]
  /\ wr' = [wr EXCEPT ![w] =
              [pc |-> IF wr[w].off = DocChunks THEN "rename" ELSE "write",
               fd |-> wr[w].fd, off |-> wr[w].off + 1,
               touched |-> Touch(w, fsDir, fsData')]]
  /\ UNCHANGED <<fsDir, rd>>
  /\ FSFrame

\* Line 51: os.replace(tmp, path) when tmp exists.
WRename(w) ==
  /\ wr[w].pc = "rename"
  /\ fsDir[TmpName] # 0
  /\ fsDir' = [fsDir EXCEPT ![PathName] = fsDir[TmpName], ![TmpName] = 0]
  /\ wr' = [wr EXCEPT ![w].pc = "done"]
  /\ UNCHANGED <<fsData, rd>>
  /\ FSFrame

\* Lines 49-51 raise: the open or a write fails (OSError), or os.replace
\* fails; os.replace always fails when tmp is gone (FileNotFoundError).
WFail(w) ==
  /\ wr[w].pc \in {"idle", "write", "rename"}
  /\ wr' = [wr EXCEPT ![w].pc = "failed"]
  /\ UNCHANGED <<fsDir, fsData, rd>>
  /\ FSFrame

\* The call is over; the process may call write_json_file again.
WReturn(w) ==
  /\ wr[w].pc \in {"done", "failed"}
  /\ wr' = [wr EXCEPT ![w] = IdleWriter]
  /\ UNCHANGED <<fsDir, fsData, rd>>
  /\ FSFrame

\* Line 38: open(path, "r"); FileNotFoundError gives None (lines 40-41).
ROpen(r) ==
  /\ rd[r].pc = "idle"
  /\ rd' = [rd EXCEPT ![r] =
              IF fsDir[PathName] = 0
              THEN [IdleReader EXCEPT !.pc = "done"]
              ELSE [IdleReader EXCEPT !.pc = "read", !.fd = fsDir[PathName]]]
  /\ UNCHANGED <<fsDir, fsData, wr>>
  /\ FSFrame

\* Line 39: json.load(f) reads the open file and parses it; a parse error
\* gives None (lines 42-43).
RRead(r) ==
  /\ rd[r].pc = "read"
  /\ \E out \in ParseOutcomes(fsData[rd[r].fd]) :
       rd' = [rd EXCEPT ![r] = [pc |-> "done", fd |-> 0, got |-> out,
                                raw |-> [exists |-> TRUE,
                                         content |-> fsData[rd[r].fd]]]]
  /\ UNCHANGED <<fsDir, fsData, wr>>
  /\ FSFrame

\* The call is over; the process may call read_json_file again.
RReturn(r) ==
  /\ rd[r].pc = "done"
  /\ rd' = [rd EXCEPT ![r] = IdleReader]
  /\ UNCHANGED <<fsDir, fsData, wr>>
  /\ FSFrame

NextFS ==
  \/ \E w \in Writers : WOpen(w) \/ WWrite(w) \/ WRename(w) \/ WFail(w) \/ WReturn(w)
  \/ \E r \in Readers : ROpen(r) \/ RRead(r) \/ RReturn(r)

SpecFS == InitFS /\ [][NextFS]_vars

\* C4: every read_json_file returns None or a complete document that a
\* writer passed to write_json_file, and the text it read from the
\* destination is never a partly written, cut or mixed document.
C4_ReadsSeeCompleteDocuments ==
  \A r \in Readers :
    rd[r].pc = "done" =>
      /\ rd[r].got.kind \in {"absent", "doc"}
      /\ rd[r].got.kind = "doc" => rd[r].got.content \in Documents
      /\ rd[r].raw.exists => rd[r].raw.content \in Documents

\* C10: a call of write_json_file that failed has not changed what the
\* destination holds at any of its steps.
C10_FailedWriteKeepsDestination ==
  \A w \in Writers : wr[w].pc = "failed" => ~wr[w].touched

\* ---------------------------------------------------------------------
\* nlp_task_create.py: the quick-add parser.
\*
\* Text is a TLA+ string; a character is a string of length one.  The
\* inputs are written in the characters below, so str.casefold is the
\* lower-casing of A-Z and the only white space is the space.

Char(s, k) == SubSeq(s, k, k)

Digits == {"0", "1", "2", "3", "4", "5", "6", "7", "8", "9"}

DigitValue(c) ==
  CASE c = "0" -> 0 [] c = "1" -> 1 [] c = "2" -> 2 [] c = "3" -> 3
    [] c = "4" -> 4 [] c = "5" -> 5 [] c = "6" -> 6 [] c = "7" -> 7
    [] c = "8" -> 8 [] c = "9" -> 9

DigitChar(n) ==
  CASE n = 0 -> "0" [] n = 1 -> "1" [] n = 2 -> "2" [] n = 3 -> "3"
    [] n = 4 -> "4" [] n = 5 -> "5" [] n = 6 -> "6" [] n = 7 -> "7"
    [] n = 8 -> "8" [] n = 9 -> "9"

\* str.casefold, one character.
FoldChar(c) ==
  CASE c = "A" -> "a" [] c = "B" -> "b" [] c = "C" -> "c" [] c = "D" -> "d"
    [] c = "E" -> "e" [] c = "F" -> "f" [] c = "G" -> "g" [] c = "H" -> "h"
    [] c = "I" -> "i" [] c = "J" -> "j" [] c = "K" -> "k" [] c = "L" -> "l"
    [] c = "M" -> "m" [] c = "N" -> "n" [] c = "O" -> "o" [] c = "P" -> "p"
    [] c = "Q" -> "q" [] c = "R" -> "r" [] c = "S" -> "s" [] c = "T" -> "t"
    [] c = "U" -> "u" [] c = "V" -> "v" [] c = "W" -> "w" [] c = "X" -> "x"
    [] c = "Y" -> "y" [] c = "Z" -> "z"
    [] OTHER -> c

RECURSIVE casefold(_)
casefold(s) ==
  IF s = "" THEN "" ELSE FoldChar(Head(s)) \o casefold(Tail(s))

\* str.lstrip(chars), str.rstrip(chars), str.strip(chars).
RECURSIVE lstrip(_, _)
lstrip(s, chars) ==
  IF s # "" /\ Head(s) \in chars THEN lstrip(Tail(s), chars) ELSE s

RECURSIVE rstrip(_, _)
rstrip(s, chars) ==
  IF s # "" /\ Char(s, Len(s)) \in chars
  THEN rstrip(SubSeq(s, 1, Len(s) - 1), chars)
  ELSE s

StripOneEach(s, chars) ==
  LET a == IF s # "" /\ Head(s) \in chars THEN Tail(s) ELSE s
  IN IF a # "" /\ Char(a, Len(a)) \in chars
     THEN SubSeq(a, 1, Len(a) - 1) ELSE a

strip(s, chars) == rstrip(lstrip(s, chars), chars)

Space == {" "}

startswith(s, prefix) ==
  Len(s) >= Len(prefix) /\ SubSeq(s, 1, Len(prefix)) = prefix

\* str.isdigit and int() of a digit string.
isdigit(s) == s # "" /\ \A k \in 1 .. Len(s) : Char(s, k) \in Digits

RECURSIVE int(_)
int(s) ==
  IF s = "" THEN 0
  ELSE 10 * int(SubSeq(s, 1, Len(s) - 1)) + DigitValue(Char(s, Len(s)))

\* str.find: the index of the first occurrence of sub in s, 0 if none.
RECURSIVE find(_, _, _)
find(s, sub, from) ==
  IF from + Len(sub) - 1 > Len(s) THEN 0
  ELSE IF SubSeq(s, from, from + Len(sub) - 1) = sub THEN from
  ELSE find(s, sub, from + 1)

\* str.split(): the maximal runs of characters that are not white space.
RECURSIVE split(_)
split(s) ==
  LET t == lstrip(s, Space)
      e == find(t, " ", 1)
  IN IF t = "" THEN <<>>
     ELSE IF e = 0 THEN <<t>>
     ELSE <<SubSeq(t, 1, e - 1)>> \o split(SubSeq(t, e, Len(t)))

\* " ".join(parts)
RECURSIVE join(_)
join(parts) ==
  IF parts = <<>> THEN ""
  ELSE IF Len(parts) = 1 THEN parts[1]
  ELSE parts[1] \o " " \o join(Tail(parts))

\* re.sub(r"[\.,;:]+$", "", s.strip())
TrailingPunct(s) == rstrip(strip(s, Space), {".", ",", ";", ":"})

\* _clean_tok, lines 228-230.
_clean_tok(s) == strip(strip(s, Space), {",", ".", ";"})

\* ---- datetime.date and calendar, as the parser uses them.
\* A value is a date, None, or the exception the call raised.

MINYEAR == 1
MAXYEAR == 9999
MaxTimedeltaDays == 999999999

Date(y, m, d) == [k |-> "date", y |-> y, m |-> m, d |-> d]
NoDate == [k |-> "none", y |-> 0, m |-> 0, d |-> 0]
DateError == [k |-> "raised", y |-> 0, m |-> 0, d |-> 0]

IsLeap(y) == y % 4 = 0 /\ (y % 100 # 0 \/ y % 400 = 0)

\* calendar.monthrange(y, m)[1]; it takes any year.
_days_in_month(y, m) ==
  IF m = 2 THEN (IF IsLeap(y) THEN 29 ELSE 28)
  ELSE IF m \in {4, 6, 9, 11} THEN 30 ELSE 31

\* date(y, m, d): ValueError outside the calendar.
date(y, m, d) ==
  IF /\ y \in MINYEAR .. MAXYEAR
     /\ m \in 1 .. 12
     /\ d \in 1 .. _days_in_month(y, m)
  THEN Date(y, m, d)
  ELSE DateError

\* _safe_date, lines 180-184.
_safe_date(y, m, d) ==
  IF date(y, m, d) = DateError THEN NoDate ELSE date(y, m, d)

DaysBeforeYear(y) ==
  LET p == y - 1 IN 365 * p + (p \div 4) - (p \div 100) + (p \div 400)

RECURSIVE DaysBeforeMonth(_, _)
DaysBeforeMonth(y, m) ==
  IF m = 1 THEN 0
  ELSE DaysBeforeMonth(y, m - 1) + _days_in_month(y, m - 1)

\* date.toordinal: 0001-01-01 is day 1.
toordinal(dt) == DaysBeforeYear(dt.y) + DaysBeforeMonth(dt.y, dt.m) + dt.d

MaxOrdinal == toordinal(Date(MAXYEAR, 12, 31))

\* date.fromordinal, for 1 <= n <= MaxOrdinal: the year, then the month
\* of day r of that year.
YearOfOrdinal(n) ==
  CHOOSE c \in ((n - 1) \div 366) + 1 .. ((n - 1) \div 365) + 1 :
    DaysBeforeYear(c) < n /\ n <= DaysBeforeYear(c + 1)

MonthOfYearDay(y, r) ==
  CHOOSE c \in 1 .. 12 :
    /\ DaysBeforeMonth(y, c) < r
    /\ r <= DaysBeforeMonth(y, c) + _days_in_month(y, c)

DateOfYearDay(y, m, r) == Date(y, m, r - DaysBeforeMonth(y, m))

YearDay(y, n) == DateOfYearDay(y, MonthOfYearDay(y, n - DaysBeforeYear(y)),
                               n - DaysBeforeYear(y))

fromordinal(n) == YearDay(YearOfOrdinal(n), n)

\* date.weekday(): Monday is 0.
weekday(dt) == (toordinal(dt) + 6) % 7

\* calendar.monthrange(y, m)[0]: the weekday of the first of the month.
\* Outside MINYEAR..MAXYEAR calendar.weekday takes the year 2000 + y % 400.
first_weekday(y, m) ==
  LET yy == IF y \in MINYEAR .. MAXYEAR THEN y ELSE 2000 + (y % 400)
  IN weekday(Date(yy, m, 1))

\* d + timedelta(days=n): OverflowError when n is no timedelta or the
\* sum is no date.
OrdinalDate(o) == IF o < 1 \/ o > MaxOrdinal THEN DateError ELSE fromordinal(o)

AddDays(dt, n) ==
  IF n > MaxTimedeltaDays \/ n < -MaxTimedeltaDays THEN DateError
  ELSE OrdinalDate(toordinal(dt) + n)

\* a < b for dates.
Before(a, b) == toordinal(a) < toordinal(b)

RECURSIVE Pad(_, _)
Pad(n, width) ==
  IF width = 0 THEN ""
  ELSE Pad(n \div 10, width - 1) \o DigitChar(n % 10)

\* _iso, lines 176-177: date.isoformat().
_iso(dt) == Pad(dt.y, 4) \o "-" \o Pad(dt.m, 2) \o "-" \o Pad(dt.d, 2)

\* date(ny, nm, day) with the day left as it is.
Clamped_DayKept(ny, nm, day) == date(ny, nm, day)

\* min(day, _days_in_month(ny, nm)) and the date built from it.
Clamped(ny, nm, day) ==
  date(ny, nm, IF day < _days_in_month(ny, nm) THEN day
               ELSE _days_in_month(ny, nm))

\* _add_months, lines 192-198.
MonthsDate(total, day) == Clamped(total \div 12, (total % 12) + 1, day)

_add_months(base, months) ==
  MonthsDate((base.y * 12 + (base.m - 1)) + months, base.d)

\* _add_years, lines 201-206.
_add_years(base, years) == Clamped(base.y + years, base.m, base.d)

\* Lines 214-216 without the step to the following week.
ForcedDelta_NeverForced(delta, force_next_week) == delta

\* _next_weekday, lines 209-217.
ForcedDelta(delta, force_next_week) ==
  IF force_next_week /\ delta = 0 THEN 7 ELSE delta

_next_weekday(today, target_weekday, force_next_week) ==
  AddDays(today,
          ForcedDelta((target_weekday - weekday(today)) % 7, force_next_week))

\* _prev_weekday, lines 220-225.
_prev_weekday(today, target_weekday) ==
  AddDays(today, -ForcedDelta((weekday(today) - target_weekday) % 7, TRUE))

\* ---- The word tables, lines 77-155.

_WEEKDAYS ==
  "mon" :> 0 @@ "monday" :> 0 @@ "tue" :> 1 @@ "tues" :> 1
  @@ "tuesday" :> 1 @@ "wed" :> 2 @@ "wednesday" :> 2 @@ "thu" :> 3
  @@ "thur" :> 3 @@ "thurs" :> 3 @@ "thursday" :> 3 @@ "fri" :> 4
  @@ "friday" :> 4 @@ "sat" :> 5 @@ "saturday" :> 5 @@ "sun" :> 6
  @@ "sunday" :> 6

_MONTHS ==
  "jan" :> 1 @@ "january" :> 1 @@ "feb" :> 2 @@ "february" :> 2
  @@ "mar" :> 3 @@ "march" :> 3 @@ "apr" :> 4 @@ "april" :> 4
  @@ "may" :> 5 @@ "jun" :> 6 @@ "june" :> 6 @@ "jul" :> 7
  @@ "july" :> 7 @@ "aug" :> 8 @@ "august" :> 8 @@ "sep" :> 9
  @@ "sept" :> 9 @@ "september" :> 9 @@ "oct" :> 10 @@ "october" :> 10
  @@ "nov" :> 11 @@ "november" :> 11 @@ "dec" :> 12 @@ "december" :> 12

_ORDINALS ==
  "1st" :> 1 @@ "2nd" :> 2 @@ "3rd" :> 3 @@ "4th" :> 4
  @@ "5th" :> 5 @@ "first" :> 1 @@ "second" :> 2 @@ "third" :> 3
  @@ "fourth" :> 4 @@ "fifth" :> 5 @@ "last" :> (-1)

_WORD_NUMS ==
  "a" :> 1 @@ "an" :> 1 @@ "one" :> 1 @@ "two" :> 2
  @@ "three" :> 3 @@ "four" :> 4 @@ "five" :> 5 @@ "six" :> 6
  @@ "seven" :> 7 @@ "eight" :> 8 @@ "nine" :> 9 @@ "ten" :> 10
  @@ "eleven" :> 11 @@ "twelve" :> 12

\* ---- The regular expressions, lines 157-159.  A match is a record of
\* its groups; ok is FALSE when the text does not match.

RECURSIVE SplitOn(_, _)
SplitOn(s, c) ==
  LET e == find(s, c, 1)
  IN IF e = 0 THEN <<s>>
     ELSE <<SubSeq(s, 1, e - 1)>> \o SplitOn(SubSeq(s, e + 1, Len(s)), c)

NoGroups == [ok |-> FALSE, g1 |-> "", g2 |-> "", g3 |-> ""]

\* ^(\d{4})-(\d{2})-(\d{2})$
_RE_ISO(s) ==
  LET p == SplitOn(s, "-")
  IN IF /\ Len(p) = 3
        /\ \A k \in 1 .. 3 : isdigit(p[k])
        /\ Len(p[1]) = 4 /\ Len(p[2]) = 2 /\ Len(p[3]) = 2
     THEN [ok |-> TRUE, g1 |-> p[1], g2 |-> p[2], g3 |-> p[3]]
     ELSE NoGroups

\* ^(\d{1,2})/(\d{1,2})(?:/(\d{2,4}))?$
_RE_US(s) ==
  LET p == SplitOn(s, "/")
  IN IF /\ Len(p) \in {2, 3}
        /\ \A k \in 1 .. Len(p) : isdigit(p[k])
        /\ Len(p[1]) \in 1 .. 2 /\ Len(p[2]) \in 1 .. 2
        /\ Len(p) = 3 => Len(p[3]) \in 2 .. 4
     THEN [ok |-> TRUE, g1 |-> p[1], g2 |-> p[2],
           g3 |-> IF Len(p) = 3 THEN p[3] ELSE ""]
     ELSE NoGroups

\* ^(\d{1,2})(?:st|nd|rd|th)?[,]?$
_RE_DAY(s) ==
  LET a == IF s # "" /\ Char(s, Len(s)) = "," THEN SubSeq(s, 1, Len(s) - 1)
           ELSE s
      suffixed == /\ Len(a) >= 2
                  /\ SubSeq(a, Len(a) - 1, Len(a)) \in {"st", "nd", "rd", "th"}
      b == IF suffixed THEN SubSeq(a, 1, Len(a) - 2) ELSE a
  IN IF isdigit(b) /\ Len(b) \in 1 .. 2
     THEN [ok |-> TRUE, g1 |-> b, g2 |-> "", g3 |-> ""]
     ELSE NoGroups

\* ---- The phrase matchers.  tokens[i] of the code is Tok(tokens, i):
\* the code counts from 0.

Tok(tokens, i) == tokens[i + 1]

\* What a matcher gives: (iso date, consumed), (None, 0), or an exception.
Hit(dt, consumed) == [dt |-> dt, consumed |-> consumed, raised |-> FALSE]
NoHit == Hit("", 0)
Crash == [dt |-> "", consumed |-> 0, raised |-> TRUE]

\* The same with a consumed count one too large.
HitDate_OneMore(d, consumed) ==
  IF d.k = "raised" THEN Crash ELSE Hit(_iso(d), consumed + 1)

\* (_iso(d), consumed) of a date; the exception when computing d raised.
HitDate(d, consumed) ==
  IF d.k = "raised" THEN Crash ELSE Hit(_iso(d), consumed)

\* _parse_int_or_wordnum, lines 233-240; NoInt is None.
NoInt == -1

_parse_int_or_wordnum(tok) ==
  LET t == casefold(_clean_tok(tok))
  IN IF isdigit(t) THEN int(t)
     ELSE IF t \in DOMAIN _WORD_NUMS THEN _WORD_NUMS[t] ELSE NoInt

\* _parse_unit, lines 243-253; "" is None.
_parse_unit(tok) ==
  LET t == casefold(_clean_tok(tok))
  IN IF t \in {"day", "days"} THEN "days"
     ELSE IF t \in {"week", "weeks"} THEN "weeks"
     ELSE IF t \in {"month", "months"} THEN "months"
     ELSE IF t \in {"year", "years"} THEN "years"
     ELSE ""

\* _apply_relative_offset, lines 256-265.
_apply_relative_offset(today, n, unit) ==
  IF unit = "days" THEN AddDays(today, n)
  ELSE IF unit = "weeks" THEN AddDays(today, 7 * n)
  ELSE IF unit = "months" THEN _add_months(today, n)
  ELSE IF unit = "years" THEN _add_years(today, n)
  ELSE today

\* _nth_weekday_of_month, lines 268-287.
_nth_weekday_of_month(y, m, wd, ordinal) ==
  LET first_wd == first_weekday(y, m)
      dim == _days_in_month(y, m)
  IN IF ordinal = -1
     THEN LET last_wd == (first_wd + (dim - 1)) % 7
              delta == (last_wd - wd) % 7
          IN date(y, m, dim - delta)
     ELSE IF ordinal < 1 THEN NoDate
     ELSE LET delta == (wd - first_wd) % 7
              day == 1 + delta + (ordinal - 1) * 7
          IN IF day > dim THEN NoDate ELSE date(y, m, day)

\* _parse_relative_phrase, lines 290-321.
_parse_relative_phrase(tokens, i, today) ==
  LET t0 == casefold(_clean_tok(Tok(tokens, i)))
      n1 == _parse_int_or_wordnum(Tok(tokens, i + 1))
      unit1 == _parse_unit(Tok(tokens, i + 2))
      n2 == _parse_int_or_wordnum(Tok(tokens, i))
      unit2 == _parse_unit(Tok(tokens, i + 1))
      t2 == casefold(_clean_tok(Tok(tokens, i + 2)))
      t3 == casefold(_clean_tok(Tok(tokens, i + 3)))
  IN IF i >= Len(tokens) THEN NoHit
     ELSE IF /\ t0 \in {"in", "after"}
             /\ i + 2 < Len(tokens)
             /\ n1 # NoInt
             /\ unit1 # ""
     THEN HitDate(_apply_relative_offset(today, n1, unit1), 3)
     ELSE IF /\ i + 3 < Len(tokens)
             /\ n2 # NoInt
             /\ unit2 # ""
             /\ t2 = "from"
             /\ t3 \in {"today", "now"}
     THEN HitDate(_apply_relative_offset(today, n2, unit2), 4)
     ELSE NoHit

\* The year of a 2- to 4-digit year text: below 100 it is 2000 + y.
Century(y) == IF y < 100 THEN y + 2000 ELSE y

\* Lines 360-368, 447-453 and 476-482: d is the date in the chosen year
\* and d2 the one in today.year + 1, which replaces d when the year was
\* not written, d is before today and allow_past is off.
Rollover(d, d2, yearless, today, allow_past, consumed) ==
  IF d.k = "raised" THEN Crash
  ELSE IF d.k = "none" THEN NoHit
  ELSE IF yearless /\ Before(d, today) /\ ~allow_past /\ d2.k # "none"
  THEN HitDate(d2, consumed)
  ELSE HitDate(d, consumed)

\* _parse_nth_weekday_phrase, lines 324-368.
NthOccurrence(y, month_tok, weekday_tok, ord_tok) ==
  _nth_weekday_of_month(y, _MONTHS[month_tok], _WEEKDAYS[weekday_tok],
                        _ORDINALS[ord_tok])

_parse_nth_weekday_phrase(tokens, i, today, allow_past) ==
  LET ord_tok == casefold(_clean_tok(Tok(tokens, i)))
      weekday_tok == casefold(_clean_tok(Tok(tokens, i + 1)))
      of_tok == casefold(_clean_tok(Tok(tokens, i + 2)))
      month_tok == casefold(_clean_tok(Tok(tokens, i + 3)))
      ytok == _clean_tok(Tok(tokens, i + 4))
      explicit == i + 4 < Len(tokens) /\ isdigit(ytok) /\ Len(ytok) = 4
  IN IF i + 3 >= Len(tokens) THEN NoHit
     ELSE IF ord_tok \notin DOMAIN _ORDINALS THEN NoHit
     ELSE IF weekday_tok \notin DOMAIN _WEEKDAYS THEN NoHit
     ELSE IF of_tok # "of" THEN NoHit
     ELSE IF month_tok \notin DOMAIN _MONTHS THEN NoHit
     ELSE Rollover(NthOccurrence(IF explicit THEN int(ytok) ELSE today.y,
                                 month_tok, weekday_tok, ord_tok),
                   NthOccurrence(today.y + 1, month_tok, weekday_tok, ord_tok),
                   ~explicit, today, allow_past,
                   IF explicit THEN 5 ELSE 4)

\* _parse_date_phrase, lines 396-484: the matchers after the two strict
\* phrases.
LiteralDate(tokens, i, today, allow_past) ==
  LET t0 == Tok(tokens, i)
      low0 == casefold(_clean_tok(t0))
      more == i + 1 < Len(tokens)
      low1 == casefold(_clean_tok(Tok(tokens, i + 1)))
      iso == _RE_ISO(_clean_tok(t0))
      us == _RE_US(_clean_tok(t0))
      md == _RE_DAY(casefold(_clean_tok(Tok(tokens, i + 1))))
      ytok == rstrip(_clean_tok(Tok(tokens, i + 2)), {","})
      explicit_year == /\ i + 2 < Len(tokens)
                       /\ isdigit(ytok)
                       /\ Len(ytok) \in {2, 4}
  IN IF low0 \in {"today", "tod"} THEN HitDate(today, 1)
     ELSE IF low0 \in {"yesterday", "yest"} THEN HitDate(AddDays(today, -1), 1)
     ELSE IF low0 \in {"tomorrow", "tmr", "tom"}
     THEN HitDate(AddDays(today, 1), 1)
     ELSE IF low0 = "next" /\ more /\ low1 \in DOMAIN _WEEKDAYS
     THEN HitDate(_next_weekday(today, _WEEKDAYS[low1], TRUE), 2)
     ELSE IF low0 = "next" /\ more /\ low1 = "week"
     THEN HitDate(AddDays(today, 7), 2)
     ELSE IF low0 = "next" /\ more /\ low1 = "month"
     THEN HitDate(_add_months(today, 1), 2)
     ELSE IF low0 = "last" /\ more /\ low1 \in DOMAIN _WEEKDAYS
     THEN HitDate(_prev_weekday(today, _WEEKDAYS[low1]), 2)
     ELSE IF low0 \in DOMAIN _WEEKDAYS
     THEN HitDate(_next_weekday(today, _WEEKDAYS[low0], FALSE), 1)
     ELSE IF iso.ok
     THEN Rollover(_safe_date(int(iso.g1), int(iso.g2), int(iso.g3)),
                   NoDate, FALSE, today, allow_past, 1)
     ELSE IF us.ok
     THEN Rollover(_safe_date(IF us.g3 # "" THEN Century(int(us.g3))
                              ELSE today.y, int(us.g1), int(us.g2)),
                   _safe_date(today.y + 1, int(us.g1), int(us.g2)),
                   us.g3 = "", today, allow_past, 1)
     ELSE IF low0 \in DOMAIN _MONTHS /\ more /\ md.ok
     THEN Rollover(_safe_date(IF explicit_year THEN Century(int(ytok))
                              ELSE today.y, _MONTHS[low0], int(md.g1)),
                   _safe_date(today.y + 1, _MONTHS[low0], int(md.g1)),
                   ~explicit_year, today, allow_past,
                   IF explicit_year THEN 3 ELSE 2)
     ELSE NoHit

\* "if dt and consumed: return dt, consumed", lines 385-386 and 390-391:
\* the first matcher's hit, else what the next one gives.
OrElse(first, next) ==
  IF first.raised THEN Crash
  ELSE IF first.dt # "" /\ first.consumed # 0 THEN first
  ELSE next

\* _parse_date_phrase, lines 371-484.
_parse_date_phrase(tokens, i, today, allow_past) ==
  IF i >= Len(tokens) THEN NoHit
  ELSE OrElse(_parse_relative_phrase(tokens, i, today),
              OrElse(_parse_nth_weekday_phrase(tokens, i, today, allow_past),
                     LiteralDate(tokens, i, today, allow_past)))

\* ---- parse_create_input, lines 487-666.

\* The length of the run of spaces of s that starts at k.
RECURSIVE SpaceRun(_, _)
SpaceRun(s, k) ==
  IF k <= Len(s) /\ Char(s, k) = " " THEN 1 + SpaceRun(s, k + 1) ELSE 0

\* re.sub(r" *\\n *", "\n", d), line 510, from position k on.
RECURSIVE SubEscapes(_, _)
SubEscapes(d, k) ==
  LET lead == SpaceRun(d, k)
      e == k + lead
  IN IF k > Len(d) THEN ""
     ELSE IF e + 1 <= Len(d) /\ SubSeq(d, e, e + 1) = "\\n"
     THEN "\n" \o SubEscapes(d, e + 2 + SpaceRun(d, e + 2))
     ELSE Char(d, k) \o SubEscapes(d, k + 1)

\* re.sub(r" {2,}", "\n", d), line 512, from position k on.
RECURSIVE SubSpaces(_, _)
SubSpaces(d, k) ==
  IF k > Len(d) THEN ""
  ELSE IF SpaceRun(d, k) >= 2
  THEN "\n" \o SubSpaces(d, k + SpaceRun(d, k))
  ELSE Char(d, k) \o SubSpaces(d, k + 1)

\* Lines 499-513 with the two substitutions in the other order.
SplitDetails_SpacesFirst(raw) ==
  LET cut == find(raw, "//", 1)
      after == strip(SubSeq(raw, cut + 2, Len(raw)), Space)
  IN IF cut = 0 THEN [left |-> raw, details |-> ""]
     ELSE [left |-> strip(SubSeq(raw, 1, cut - 1), Space),
           details |-> IF after = "" THEN ""
                       ELSE SubEscapes(SubSpaces(after, 1), 1)]

\* Lines 499-513: (left, details) of the stripped raw; "" is None.
SplitDetails(raw) ==
  LET cut == find(raw, "//", 1)
      after == strip(SubSeq(raw, cut + 2, Len(raw)), Space)
  IN IF cut = 0 THEN [left |-> raw, details |-> ""]
     ELSE [left |-> strip(SubSeq(raw, 1, cut - 1), Space),
           details |-> IF after = "" THEN ""
                       ELSE SubSpaces(SubEscapes(after, 1), 1)]

\* priority_map, lines 525-528.
priority_map ==
  "p1" :> "High" @@ "p2" :> "Medium" @@ "p3" :> "Low"
  @@ "!!!" :> "High" @@ "!!" :> "Medium" @@ "!" :> "Low"

\* tuple(dict.fromkeys(xs)), lines 663-664: first occurrences, in order.
RECURSIVE Unique(_)
Unique(xs) ==
  IF xs = <<>> THEN <<>>
  ELSE LET front == Unique(SubSeq(xs, 1, Len(xs) - 1))
           x == xs[Len(xs)]
       IN IF \E k \in 1 .. Len(front) : front[k] = x THEN front
          ELSE Append(front, x)

\* Lines 572-579: the tokens that end a project name by what they are.
ProjectStops(nxt) ==
  LET low_nxt == casefold(_clean_tok(nxt))
  IN \/ startswith(nxt, "#") \/ startswith(nxt, "+") \/ startswith(nxt, "@")
     \/ low_nxt \in {"due", "by", "do", "sch"}
     \/ low_nxt \in DOMAIN priority_map
     \/ startswith(low_nxt, "due:") \/ startswith(low_nxt, "sch:")

\* Lines 567-589: the continuation loop of a project, from token j on;
\* ahead is what _parse_date_phrase gives at j.
RECURSIVE ProjectScan(_, _, _, _)
RECURSIVE ScanOn(_, _, _, _, _)
ScanOn(tokens, j, today, proj_parts, ahead) ==
  IF ahead.raised THEN [j |-> j, parts |-> proj_parts, raised |-> TRUE]
  ELSE IF ahead.dt # "" /\ ahead.consumed > 0
  THEN [j |-> j, parts |-> proj_parts, raised |-> FALSE]
  ELSE ProjectScan(tokens, j + 1, today,
                   IF TrailingPunct(Tok(tokens, j)) # ""
                   THEN Append(proj_parts, TrailingPunct(Tok(tokens, j)))
                   ELSE proj_parts)

ProjectScan(tokens, j, today, proj_parts) ==
  IF j >= Len(tokens) \/ ProjectStops(Tok(tokens, j))
  THEN [j |-> j, parts |-> proj_parts, raised |-> FALSE]
  ELSE ScanOn(tokens, j, today, proj_parts,
              _parse_date_phrase(tokens, j, today, TRUE))

\* ---- SpecParse: one call of parse_create_input(raw, today=today), one
\* iteration of its token loop per step, followed by a second call on the
\* raw of the first result.

MaxPieces == 2

\* What the user types: up to MaxPieces of these, one space between them.
Pieces ==
  {" ", "x", "Milk.", "p1", "#t", "+W", "@c",
   "tomorrow", "1/5", "2/29", "jan 5", "2026-03-01", "last fri",
   "13/45", "2026-02-30",
   "due", "BY", "on", "sch", "due:1/5", "sch:1/5", "due:zz",
   "by tomorrow", "on jan 5",
   "in two weeks", "in 9999 years",
   "1st mon of jan", "5th thu of feb", "0000", "2026",
   "//", "// b  c\\nd", "// #t  \\n p1 1/5"}

Todays == {Date(2026, 1, 10), Date(2024, 3, 1)}

Inputs ==
  {join(ps) : ps \in UNION {[1 .. n -> Pieces] : n \in 0 .. MaxPieces}}

\* What one evaluation of the loop's conditions finds: the branch taken,
\* the date matched, how far the cursor moves, the project found.
Look(branch, dt, advance) ==
  [branch |-> branch, dt |-> dt, advance |-> advance, project |-> ""]
NoLook == Look("none", "", 0)

\* ParsedCreate, lines 162-173; "" is None.
ParsedCreate(p) ==
  [raw |-> p.raw, title |-> p.title, details |-> p.details,
   scheduled |-> p.scheduled, due |-> p.due, priority |-> p.priority,
   tags |-> p.tags, projects |-> p.projects, warnings |-> p.warnings]

EmptyParsedCreate ==
  [raw |-> "", title |-> "", details |-> "", scheduled |-> "", due |-> "",
   priority |-> "", tags |-> <<>>, projects |-> <<>>, warnings |-> <<>>]

\* The call parse_create_input(arg, today=today), not yet started.  The
\* history: round (1: what the user typed, 2: the raw of the first
\* result), typed and first (the input and the result of round 1), and,
\* of the last iteration, branch, at and was (due and scheduled before it).
NoDates == [due |-> "", scheduled |-> ""]

Call(arg, today, round, first, typed) ==
  [pc |-> "call", arg |-> arg, today |-> today, round |-> round,
   first |-> first, typed |-> typed, was |-> NoDates,
   raw |-> "", title |-> "", details |-> "",
   scheduled |-> "", due |-> "", priority |-> "", tags |-> <<>>,
   projects |-> <<>>, warnings |-> <<>>, tokens |-> <<>>, keep |-> <<>>,
   i |-> 0, at |-> 0, branch |-> "none", look |-> NoLook]

InitParse ==
  /\ clock = StartTime
  /\ cacheFile = Missing
  /\ stateFile = Missing
  /\ last = NoInvocation
  /\ lastFetch = -1
  /\ status = NoCall
  /\ race = NoRace
  /\ NoFS
  /\ \E arg \in Inputs, today \in Todays :
       pz = Call(arg, today, 1, EmptyParsedCreate, arg)

ParseFrame == UNCHANGED <<clock, ctlVars, status, race, fsVars>>

\* Lines 489-530: strip, the early return, the details split, the tokens.
Enter ==
  /\ pz.pc = "call"
  /\ LET raw == strip(pz.arg, Space)
         parts == SplitDetails(raw)
     IN pz' = IF raw = ""
              THEN [pz EXCEPT !.pc = "done", !.branch = "empty"]
              ELSE [pz EXCEPT !.pc = "loop", !.raw = raw,
                              !.details = parts.details,
                              !.tokens = split(parts.left),
                              !.branch = "enter"]
  /\ ParseFrame

\* The token under the cursor: tok and low, lines 534-535.
CurTok(p) == Tok(p.tokens, p.i)
CurLow(p) == casefold(_clean_tok(CurTok(p)))

\* tok[1:] and tok[4:].strip()
AfterSigil(p) == SubSeq(CurTok(p), 2, Len(CurTok(p)))
ColonRest(p) == strip(SubSeq(CurTok(p), 5, Len(CurTok(p))), Space)

ScheduledKeywords == {"do", "sch", "on", "start", "scheduled"}

\* Lines 601-643: the keyword branch whose condition the token meets.
KeywordKind(low, rest) ==
  IF startswith(low, "due:") /\ rest # "" THEN "due_colon"
  ELSE IF low = "due" THEN "due"
  ELSE IF low = "by" THEN "by"
  ELSE IF startswith(low, "sch:") /\ rest # "" THEN "sch_colon"
  ELSE IF low \in ScheduledKeywords THEN "scheduled"
  ELSE "none"

\* The call of _parse_date_phrase that branch makes: on [rest] for a
\* colon keyword, on the tokens after the keyword otherwise.
KeywordDate(p, kind) ==
  IF kind \in {"due_colon", "sch_colon"}
  THEN _parse_date_phrase(<<ColonRest(p)>>, 0, p.today, TRUE)
  ELSE _parse_date_phrase(p.tokens, p.i + 1, p.today, TRUE)

\* Lines 601-653: a keyword branch when its matcher gives a date, else the
\* bare date branch, else the token is kept; an exception of a matcher
\* that was called ends the parse.
DateLook(kind, keyword, bare) ==
  IF kind # "none" /\ keyword.raised THEN Look("raise", "", 0)
  ELSE IF kind \in {"due_colon", "sch_colon"} /\ keyword.dt # ""
  THEN Look(kind, keyword.dt, 1)
  ELSE IF kind # "none" /\ keyword.dt # ""
  THEN Look(kind, keyword.dt, 1 + keyword.consumed)
  ELSE IF bare.raised THEN Look("raise", "", 0)
  ELSE IF bare.dt # "" /\ bare.consumed > 0
  THEN Look("bare", bare.dt, bare.consumed)
  ELSE Look("keep", "", 1)

\* Lines 559-593: the project at the cursor.
ProjectLook(i, first, scan) ==
  IF first = "" THEN Look("project", "", 1)
  ELSE IF scan.raised THEN Look("raise", "", 0)
  ELSE [Look("project", "", scan.j - i) EXCEPT
          !.project = strip(join(scan.parts), Space)]

\* Lines 537-653: the conditions of one iteration, in the code's order.
Dispatched(p) ==
  IF CurLow(p) \in DOMAIN priority_map THEN Look("priority", "", 1)
  ELSE IF startswith(CurTok(p), "#") /\ Len(CurTok(p)) > 1
  THEN Look("tag", "", 1)
  ELSE IF startswith(CurTok(p), "+") /\ Len(CurTok(p)) > 1
  THEN ProjectLook(p.i, TrailingPunct(AfterSigil(p)),
                   ProjectScan(p.tokens, p.i + 1, p.today,
                               <<TrailingPunct(AfterSigil(p))>>))
  ELSE IF startswith(CurTok(p), "@") /\ Len(CurTok(p)) > 1
  THEN Look("context", "", 1)
  ELSE DateLook(KeywordKind(CurLow(p), ColonRest(p)),
                KeywordDate(p, KeywordKind(CurLow(p), ColonRest(p))),
                _parse_date_phrase(p.tokens, p.i, p.today, FALSE))

\* Lines 533-535 and the conditions of lines 537-647: the loop looks at
\* the token under the cursor and picks its branch.
Dispatch ==
  /\ pz.pc = "loop"
  /\ pz.i < Len(pz.tokens)
  /\ pz' = [pz EXCEPT !.pc = "branch", !.look = Dispatched(pz)]
  /\ ParseFrame

\* The body of the branch picked: the fields it assigns; the cursor moves
\* on and the history keeps the branch and where it was taken.
Take(label, p) ==
  /\ pz.pc = "branch"
  /\ pz.look.branch = label
  /\ pz' = [p EXCEPT !.pc = "loop", !.i = pz.i + pz.look.advance,
                     !.branch = label, !.at = pz.i,
                     !.was = [due |-> pz.due, scheduled |-> pz.scheduled]]
  /\ ParseFrame

\* Lines 538-541.
Priority ==
  Take("priority", [pz EXCEPT !.priority = priority_map[CurLow(pz)]])

\* Lines 544-549.
Tag ==
  Take("tag", [pz EXCEPT !.tags =
                           IF TrailingPunct(AfterSigil(pz)) # ""
                           THEN Append(pz.tags, TrailingPunct(AfterSigil(pz)))
                           ELSE pz.tags])

\* Lines 559-593.
Project ==
  Take("project", [pz EXCEPT !.projects =
                               IF pz.look.project # ""
                               THEN Append(pz.projects, pz.look.project)
                               ELSE pz.projects])

\* Lines 596-599.
Context ==
  Take("context",
       [pz EXCEPT !.warnings =
                    Append(pz.warnings,
                           "Ignored " \o CurTok(pz) \o " (contexts disabled)")])

\* Lines 607, 615, 623: due = dt.
SetDue_KeepsFirst(p, dt) ==
  [p EXCEPT !.due = IF p.due = "" THEN dt ELSE p.due]

SetDue(p, dt) == [p EXCEPT !.due = dt]

\* Lines 633, 641, 648: scheduled = dt.
SetScheduled_SetsDue(p, dt) == [p EXCEPT !.due = dt]

SetScheduled(p, dt) == [p EXCEPT !.scheduled = dt]

\* Lines 602-609.
DueColon == Take("due_colon", SetDue(pz, pz.look.dt))

\* Lines 612-617.
DueKeyword == Take("due", SetDue(pz, pz.look.dt))

\* Lines 620-625.
ByKeyword == Take("by", SetDue(pz, pz.look.dt))

\* Lines 628-635.
SchColon == Take("sch_colon", SetScheduled(pz, pz.look.dt))

\* Lines 638-643.
ScheduledKeyword == Take("scheduled", SetScheduled(pz, pz.look.dt))

\* Lines 646-650.
BareDatePhrase == Take("bare", SetScheduled(pz, pz.look.dt))

\* Lines 652-653 without keep.append(tok).
KeepToken_Dropped == Take("keep", pz)

\* Lines 652-653.
KeepToken == Take("keep", [pz EXCEPT !.keep = Append(pz.keep, CurTok(pz))])

\* An exception of a matcher leaves parse_create_input: nothing catches it.
Raise ==
  /\ pz.pc = "branch"
  /\ pz.look.branch = "raise"
  /\ pz' = [pz EXCEPT !.pc = "raised", !.branch = "raise", !.at = pz.i]
  /\ ParseFrame

\* Lines 655-666.
Return ==
  /\ pz.pc = "loop"
  /\ pz.i >= Len(pz.tokens)
  /\ pz' = [pz EXCEPT !.pc = "done",
                      !.title = strip(join(pz.keep), Space),
                      !.tags = Unique(pz.tags),
                      !.projects = Unique(pz.projects)]
  /\ ParseFrame

\* The caller parses the raw of the result again, with the same today.
Reparse ==
  /\ pz.pc = "done"
  /\ pz.round = 1
  /\ pz' = Call(pz.raw, pz.today, 2, ParsedCreate(pz), pz.typed)
  /\ ParseFrame

NextParse ==
  \/ Enter
  \/ Dispatch
  \/ Priority
  \/ Tag
  \/ Project
  \/ Context
  \/ DueColon
  \/ DueKeyword
  \/ ByKeyword
  \/ SchColon
  \/ ScheduledKeyword
  \/ BareDatePhrase
  \/ KeepToken
  \/ Raise
  \/ Return
  \/ Reparse

SpecParse == InitParse /\ [][NextParse]_vars

\* ---- Claims about the parser, checked in SpecParse.

\* C11: parser totality: for every input and every today the call returns
\* a ParsedCreate; no exception leaves parse_create_input, a date
\* expression that gives no calendar date is no match.
C11_ParserTotal == pz.pc # "raised"

Iterated == pz.pc = "loop" /\ pz.branch \notin {"none", "enter"}

\* The token the last iteration started at, cleaned and folded.
LowAt(k) == casefold(_clean_tok(Tok(pz.tokens, k)))

\* The token at k is an explicit due keyword followed by (or, for due:,
\* holding) a date phrase that matches.
DueKeywordAt(k) ==
  \/ /\ LowAt(k) \in {"due", "by"}
     /\ _parse_date_phrase(pz.tokens, k + 1, pz.today, TRUE).dt # ""
  \/ /\ startswith(LowAt(k), "due:")
     /\ _parse_date_phrase(
          <<strip(SubSeq(Tok(pz.tokens, k), 5, Len(Tok(pz.tokens, k))), Space)>>,
          0, pz.today, TRUE).dt # ""

\* C13: due changes only at an explicit due keyword (due, by, due:<date>)
\* with a matching date phrase; a date phrase the loop meets with no
\* keyword before it sets scheduled, resolved with allow_past off, and
\* leaves due as it was.
C13_BareDatesScheduledOnly ==
  Iterated =>
    /\ pz.due # pz.was.due => DueKeywordAt(pz.at)
    /\ _parse_date_phrase(pz.tokens, pz.at, pz.today, FALSE).dt # "" =>
         /\ pz.scheduled =
              _parse_date_phrase(pz.tokens, pz.at, pz.today, FALSE).dt
         /\ pz.due = pz.was.due

\* C13 witness: a bare date phrase was taken after due had been set.
C13_Witness ==
  /\ Iterated
  /\ pz.branch = "bare"
  /\ pz.was.due # ""
  /\ pz.scheduled # pz.was.scheduled

\* The date keywords of lines 612-638 that stand before a date phrase.
DateKeywords == {"due", "by"} \cup ScheduledKeywords

\* A date phrase that leaves the year out starts at token k: M/D, a month
\* name and a day, or an nth-weekday phrase, none followed by a year.
YearlessUSAt(k) ==
  /\ _RE_US(_clean_tok(Tok(pz.tokens, k))).ok
  /\ _RE_US(_clean_tok(Tok(pz.tokens, k))).g3 = ""

YearlessMonthDayAt(k) ==
  /\ k + 1 < Len(pz.tokens)
  /\ LowAt(k) \in DOMAIN _MONTHS
  /\ _RE_DAY(LowAt(k + 1)).ok
  /\ ~(/\ k + 2 < Len(pz.tokens)
       /\ isdigit(rstrip(_clean_tok(Tok(pz.tokens, k + 2)), {","}))
       /\ Len(rstrip(_clean_tok(Tok(pz.tokens, k + 2)), {","})) \in {2, 4})

NthPhraseAt(k) ==
  /\ k + 3 < Len(pz.tokens)
  /\ LowAt(k) \in DOMAIN _ORDINALS
  /\ LowAt(k + 1) \in DOMAIN _WEEKDAYS
  /\ LowAt(k + 2) = "of"
  /\ LowAt(k + 3) \in DOMAIN _MONTHS

NthYearAt(k) ==
  /\ k + 4 < Len(pz.tokens)
  /\ isdigit(_clean_tok(Tok(pz.tokens, k + 4)))
  /\ Len(_clean_tok(Tok(pz.tokens, k + 4))) = 4

YearlessAt(k) ==
  \/ YearlessUSAt(k)
  \/ YearlessMonthDayAt(k)
  \/ NthPhraseAt(k) /\ ~NthYearAt(k)

\* The loop has picked a date for the phrase that starts at token k.
PickedDateAt(k) ==
  /\ pz.pc = "branch"
  /\ pz.look.dt # ""
  /\ k = IF pz.look.branch = "bare" THEN pz.i ELSE pz.i + 1

\* C14: a yearless M/D, month-name or nth-weekday phrase that follows an
\* explicit keyword (due, by, do, sch, on, start, scheduled) resolves in
\* today.year, whether or not that date is before today.
C14_KeywordedDatesLiteral ==
  \A k \in 1 .. Len(pz.tokens) - 1 :
    ( /\ PickedDateAt(k)
      /\ pz.look.branch \notin {"due_colon", "sch_colon"}
      /\ LowAt(k - 1) \in DateKeywords
      /\ YearlessAt(k) )
    => SubSeq(pz.look.dt, 1, 4) = Pad(pz.today.y, 4)

\* The month and the day a yearless M/D or month-name phrase at k writes.
WrittenMonth(k) ==
  IF YearlessUSAt(k) THEN int(_RE_US(_clean_tok(Tok(pz.tokens, k))).g1)
  ELSE _MONTHS[LowAt(k)]

WrittenDay(k) ==
  IF YearlessUSAt(k) THEN int(_RE_US(_clean_tok(Tok(pz.tokens, k))).g2)
  ELSE int(_RE_DAY(LowAt(k + 1)).g1)

\* The loop has picked, as a bare date, the yearless M/D or month-name
\* phrase under the cursor, which names a date of today.year.
BareYearlessPicked ==
  /\ pz.pc = "branch"
  /\ pz.look.branch = "bare"
  /\ YearlessUSAt(pz.i) \/ YearlessMonthDayAt(pz.i)
  /\ pz.i > 0 => LowAt(pz.i - 1) \notin DateKeywords
  /\ _safe_date(pz.today.y, WrittenMonth(pz.i), WrittenDay(pz.i)).k = "date"

\* C15: a bare yearless M/D or month-name date that is before today in
\* today.year resolves to the same month and day of today.year + 1, and
\* one that is today or later is kept: it never resolves before today.
C15_BareYearlessRollover ==
  BareYearlessPicked =>
    pz.look.dt =
      IF Before(Date(pz.today.y, WrittenMonth(pz.i), WrittenDay(pz.i)),
                pz.today)
      THEN Pad(pz.today.y + 1, 4) \o "-" \o Pad(WrittenMonth(pz.i), 2)
             \o "-" \o Pad(WrittenDay(pz.i), 2)
      ELSE _iso(Date(pz.today.y, WrittenMonth(pz.i), WrittenDay(pz.i)))

\* The occurrence an nth-weekday phrase at k names, in year y.
OccurrenceAt(k, y) ==
  NthOccurrence(y, LowAt(k + 3), LowAt(k + 1), LowAt(k))

\* The year an nth-weekday phrase at k chooses: the one written, else
\* today.year.
ChosenYear(k) ==
  IF NthYearAt(k) THEN int(_clean_tok(Tok(pz.tokens, k + 4)))
  ELSE pz.today.y

\* C16: an nth-weekday phrase met as a bare date resolves to that
\* occurrence in the chosen year, or in today.year + 1 when the year is
\* omitted and the occurrence is before today; when the chosen year has
\* no such occurrence the phrase does not match and its first token is an
\* ordinary token; nothing is raised.
C16_NthWeekdayPhrase ==
  (pz.pc = "branch" /\ NthPhraseAt(pz.i)) =>
    /\ pz.look.branch # "raise"
    /\ OccurrenceAt(pz.i, ChosenYear(pz.i)).k = "none" =>
         pz.look.branch = "keep"
    /\ OccurrenceAt(pz.i, ChosenYear(pz.i)).k = "date" =>
         /\ pz.look.branch = "bare"
         /\ pz.look.dt =
              IF /\ ~NthYearAt(pz.i)
                 /\ Before(OccurrenceAt(pz.i, ChosenYear(pz.i)), pz.today)
              THEN _iso(OccurrenceAt(pz.i, pz.today.y + 1))
              ELSE _iso(OccurrenceAt(pz.i, ChosenYear(pz.i)))

\* The branches that assign due, and those that assign scheduled.
DueBranches == {"due_colon", "due", "by"}
ScheduledBranches == {"sch_colon", "scheduled", "bare"}

\* C17: last write wins: every step of a parse that matches a date for due
\* leaves due equal to that date, whatever due held, and scheduled as it
\* was; every step that matches a date for scheduled leaves scheduled equal
\* to that date and due as it was; every other step of the loop, and the
\* return, leaves both as they were.
C17_LastWriteWins ==
  [][(pz.pc \in {"loop", "branch"} /\ pz'.pc \in {"loop", "done"}) =>
       /\ pz'.due =
            IF pz.pc = "branch" /\ pz.look.branch \in DueBranches
            THEN pz.look.dt ELSE pz.due
       /\ pz'.scheduled =
            IF pz.pc = "branch" /\ pz.look.branch \in ScheduledBranches
            THEN pz.look.dt ELSE pz.scheduled]_vars

\* C17 witness: a second due date has replaced a different first one, and
\* the parse has returned it.
C17_Witness ==
  /\ pz.pc = "done"
  /\ pz.branch \in DueBranches
  /\ pz.was.due # ""
  /\ pz.was.due # pz.due
  /\ pz.due = pz.look.dt

\* The token at k is one the loop's own conditions (lines 538-643)
\* recognise as metadata: a priority, a #tag, +project or @context, an
\* explicit due or scheduled keyword, or the start of a date phrase.
MetadataAt(k) ==
  \/ LowAt(k) \in DOMAIN priority_map
  \/ /\ Len(Tok(pz.tokens, k)) > 1
     /\ \E sigil \in {"#", "+", "@"} : startswith(Tok(pz.tokens, k), sigil)
  \/ KeywordKind(LowAt(k),
                 strip(SubSeq(Tok(pz.tokens, k), 5, Len(Tok(pz.tokens, k))),
                       Space)) # "none"
  \/ _parse_date_phrase(pz.tokens, k, pz.today, TRUE).dt # ""

\* C18: the tokens a project absorbs after its '+token' hold no token the
\* loop would recognise as metadata or as the start of a date phrase: the
\* project ends before the first such token.
C18_ProjectStopsAtMetadata ==
  (pz.pc = "branch" /\ pz.look.branch = "project") =>
    \A k \in pz.i + 1 .. pz.i + pz.look.advance - 1 : ~MetadataAt(k)

\* Where the first "//" of s is; 0 when s has none.
FirstDelimiter(s) ==
  IF \E k \in 1 .. Len(s) - 1 : SubSeq(s, k, k + 1) = "//"
  THEN CHOOSE k \in 1 .. Len(s) - 1 :
         /\ SubSeq(s, k, k + 1) = "//"
         /\ \A j \in 1 .. k - 1 : SubSeq(s, j, j + 1) # "//"
  ELSE 0

\* The parts of pz.raw before and after its first "//", trimmed.
LeftText ==
  IF FirstDelimiter(pz.raw) = 0 THEN pz.raw
  ELSE strip(SubSeq(pz.raw, 1, FirstDelimiter(pz.raw) - 1), Space)

RightText ==
  IF FirstDelimiter(pz.raw) = 0 THEN ""
  ELSE strip(SubSeq(pz.raw, FirstDelimiter(pz.raw) + 2, Len(pz.raw)), Space)

\* Where the backslash-n escapes of d are, and where its maximal runs of
\* two or more spaces start.
EscapesOf(d) == {k \in 1 .. Len(d) - 1 : SubSeq(d, k, k + 1) = "\\n"}

SpaceRunsOf(d) ==
  {k \in 1 .. Len(d) :
     /\ SpaceRun(d, k) >= 2
     /\ k > 1 => Char(d, k - 1) # " "}

\* The run of spaces of d that starts at k touches an escape.
TouchesEscape(d, k) ==
  \/ k + SpaceRun(d, k) \in EscapesOf(d)
  \/ k - 2 \in EscapesOf(d)

LineBreaksOf(s) == {k \in 1 .. Len(s) : Char(s, k) = "\n"}

\* s without its spaces, its line breaks and its backslash-n escapes.
RECURSIVE Squash(_)
Squash(s) ==
  IF s = "" THEN ""
  ELSE IF Len(s) >= 2 /\ SubSeq(s, 1, 2) = "\\n"
  THEN Squash(SubSeq(s, 3, Len(s)))
  ELSE IF Head(s) \in {" ", "\n"} THEN Squash(Tail(s))
  ELSE SubSeq(s, 1, 1) \o Squash(Tail(s))

\* The call has split its input: raw, details and tokens are set.
Entered == pz.pc \in {"loop", "branch", "done"} /\ pz.raw # ""

\* Details are present exactly when raw holds "//" with text after it, and
\* only the part before the first "//" is tokenized; what is written after
\* it stays in details.
DetailsSplit ==
  /\ pz.details # "" <=> (FirstDelimiter(pz.raw) # 0 /\ RightText # "")
  /\ pz.tokens = split(LeftText)
  /\ Squash(pz.details) = Squash(RightText)
  /\ pz.pc = "done" =>
       /\ Len(pz.tags) <= Len(pz.tokens)
       /\ Len(pz.projects) <= Len(pz.tokens)
       /\ Len(pz.tokens) = 0 =>
            pz.priority = "" /\ pz.due = "" /\ pz.scheduled = ""

\* C19 as stated: details are present exactly when raw holds "//" with
\* text after it, the right part is not scanned for metadata, and every
\* backslash-n escape and every run of two or more spaces in it becomes a
\* line break of its own.
C19_DetailsEachIndependently ==
  Entered =>
    /\ DetailsSplit
    /\ Cardinality(LineBreaksOf(pz.details)) =
         Cardinality(EscapesOf(RightText)) + Cardinality(SpaceRunsOf(RightText))

\* C19 amended: as above, but every backslash-n escape becomes one line
\* break together with the spaces next to it, and every run of two or more
\* spaces that touches no escape becomes one line break.
C19_DetailsBlock ==
  Entered =>
    /\ DetailsSplit
    /\ Cardinality(LineBreaksOf(pz.details)) =
         Cardinality(EscapesOf(RightText))
         + Cardinality({k \in SpaceRunsOf(RightText) :
                          ~TouchesEscape(RightText, k)})

\* C19 witness: a parse has returned details whose text held metadata, an
\* escape and a run of spaces next to it.
C19_Witness ==
  /\ pz.pc = "done"
  /\ \E k \in SpaceRunsOf(RightText) : TouchesEscape(RightText, k)
  /\ \E k \in 1 .. Len(RightText) : Char(RightText, k) = "#"
  /\ pz.tags = <<>>
  /\ LineBreaksOf(pz.details) # {}

\* tok[4:].strip() of the token at k.
ColonRestAt(k) ==
  strip(SubSeq(Tok(pz.tokens, k), 5, Len(Tok(pz.tokens, k))), Space)

\* The token at k is a keyword (due, by, do, sch, on, start, scheduled,
\* due:<x>, sch:<x>) with no date after it or in it.
KeywordWithoutDateAt(k) ==
  /\ KeywordKind(LowAt(k), ColonRestAt(k)) # "none"
  /\ LET found == IF KeywordKind(LowAt(k), ColonRestAt(k))
                       \in {"due_colon", "sch_colon"}
                  THEN _parse_date_phrase(<<ColonRestAt(k)>>, 0, pz.today, TRUE)
                  ELSE _parse_date_phrase(pz.tokens, k + 1, pz.today, TRUE)
     IN found.dt = "" /\ ~found.raised

\* The token at k has the shape of an ISO or M/D date and is no calendar
\* date.
InvalidDateAt(k) ==
  /\ \/ _RE_ISO(_clean_tok(Tok(pz.tokens, k))).ok
     \/ _RE_US(_clean_tok(Tok(pz.tokens, k))).ok
  /\ LET found == _parse_date_phrase(pz.tokens, k, pz.today, FALSE)
     IN found.dt = "" /\ ~found.raised

\* C20: every keyword token with no recognisable date, and every token
\* that has the shape of a date and is no calendar date, is kept as title
\* text by the iteration that consumes it, in its place among the kept
\* tokens, and that iteration leaves due and scheduled as they were; the
\* title is the kept tokens in order.
C20_MalformedKeptAsTitle ==
  /\ Iterated =>
       \A k \in pz.at .. pz.i - 1 :
         (KeywordWithoutDateAt(k) \/ InvalidDateAt(k)) =>
           /\ pz.branch = "keep"
           /\ pz.keep # <<>>
           /\ pz.keep[Len(pz.keep)] = Tok(pz.tokens, k)
           /\ pz.due = pz.was.due
           /\ pz.scheduled = pz.was.scheduled
  /\ (pz.pc = "done" /\ pz.raw # "") => pz.title = strip(join(pz.keep), Space)

\* ---- SpecCal: the calendar helpers of the parser, each applied to
\* arguments drawn from bounded sets; pz holds the last call and its result.

\* Months and years shifted by at most this many, either way.
MaxShift == 14

\* Dates the arithmetic starts from: ends of months, a leap day, the two
\* ends of the calendar.
Bases ==
  {Date(2024, 1, 31), Date(2023, 1, 31), Date(2024, 2, 29), Date(2024, 3, 31),
   Date(2023, 12, 15), Date(2025, 10, 30), Date(MINYEAR, 1, 31),
   Date(MAXYEAR, 12, 31)}

\* Years given to _nth_weekday_of_month: a 4-digit year token is any of
\* 0000 .. 9999.
Years == {0, 2023, 2024, 2026, MAXYEAR}

\* The values of today: every weekday, a leap day, the turn of a year.
CalTodays ==
  {Date(2026, 1, dd) : dd \in 5 .. 11}
  \cup {Date(2024, 2, 28), Date(2024, 2, 29), Date(2024, 12, 29)}

\* The words before a weekday name, lines 404-426; "" is none.
Leads == {"", "next", "last"}

CalCall(op, base, n, wd, out, tokens, hit) ==
  [pc |-> "cal", op |-> op, base |-> base, n |-> n, wd |-> wd, out |-> out,
   tokens |-> tokens, hit |-> hit]

InitCal ==
  /\ clock = StartTime
  /\ cacheFile = Missing
  /\ stateFile = Missing
  /\ last = NoInvocation
  /\ lastFetch = -1
  /\ status = NoCall
  /\ race = NoRace
  /\ NoFS
  /\ pz = CalCall("none", NoDate, 0, 0, NoDate, <<>>, NoHit)

\* No call is under way.
CalIdle == pz.pc = "cal" /\ pz.op = "none"

\* The call returns to its caller.
CalReturn ==
  /\ pz.pc = "cal"
  /\ pz.op # "none"
  /\ pz' = CalCall("none", NoDate, 0, 0, NoDate, <<>>, NoHit)
  /\ ParseFrame

\* _add_months(base, n)
AddMonths ==
  /\ CalIdle
  /\ \E base \in Bases, n \in -MaxShift .. MaxShift :
       pz' = CalCall("add_months", base, n, 0, _add_months(base, n), <<>>, NoHit)
  /\ ParseFrame

\* _add_years(base, n)
AddYears ==
  /\ CalIdle
  /\ \E base \in Bases, n \in -MaxShift .. MaxShift :
       pz' = CalCall("add_years", base, n, 0, _add_years(base, n), <<>>, NoHit)
  /\ ParseFrame

\* _nth_weekday_of_month(y, m, wd, ordinal); base holds y and m.
NthWeekdayOfMonth ==
  /\ CalIdle
  /\ \E y \in Years, m \in 1 .. 12, wd \in 0 .. 6, ordinal \in -2 .. 6 :
       pz' = CalCall("nth_weekday", Date(y, m, 1), ordinal, wd,
                     _nth_weekday_of_month(y, m, wd, ordinal), <<>>, NoHit)
  /\ ParseFrame

\* _parse_date_phrase on a weekday name, alone or after next or last.
WeekdayPhrase ==
  /\ CalIdle
  /\ \E today \in CalTodays, lead \in Leads, name \in DOMAIN _WEEKDAYS,
        allow_past \in BOOLEAN :
       LET tokens == IF lead = "" THEN <<name>> ELSE <<lead, name>>
       IN pz' = CalCall("weekday", today, 0, _WEEKDAYS[name], NoDate, tokens,
                        _parse_date_phrase(tokens, 0, today, allow_past))
  /\ ParseFrame

NextCal ==
  \/ AddMonths
  \/ AddYears
  \/ NthWeekdayOfMonth
  \/ WeekdayPhrase
  \/ CalReturn

SpecCal == InitCal /\ [][NextCal]_vars

\* ---- Claims about the calendar helpers, checked in SpecCal.

\* The length of month m of year y, from the calendar's rule.
MonthLength(y, m) ==
  IF m = 2
  THEN (IF y % 4 = 0 /\ (y % 100 # 0 \/ y % 400 = 0) THEN 29 ELSE 28)
  ELSE <<31, 0, 31, 30, 31, 30, 31, 31, 30, 31, 30, 31>>[m]

\* Months since year 0, of the month a date lies in.
MonthIndex(dt) == dt.y * 12 + dt.m

\* The smaller of two numbers.
Min(a, b) == IF a < b THEN a ELSE b

\* C21: when the month n months from base's lies in years 1..9999,
\* _add_months(base, n) is a date in exactly that month and _add_years(base,
\* n) a date in base's month n years on, each with day min(base.day, length
\* of the month): a valid date that never spills into the next month.
C21_MonthYearArithmetic ==
  /\ ( /\ pz.pc = "cal" /\ pz.op = "add_months"
       /\ (MonthIndex(pz.base) + pz.n - 1) \div 12 \in MINYEAR .. MAXYEAR ) =>
       /\ pz.out.k = "date"
       /\ MonthIndex(pz.out) = MonthIndex(pz.base) + pz.n
       /\ pz.out.m \in 1 .. 12
       /\ pz.out.d = Min(pz.base.d, MonthLength(pz.out.y, pz.out.m))
  /\ ( /\ pz.pc = "cal" /\ pz.op = "add_years"
       /\ pz.base.y + pz.n \in MINYEAR .. MAXYEAR ) =>
       /\ pz.out.k = "date"
       /\ pz.out.y = pz.base.y + pz.n
       /\ pz.out.m = pz.base.m
       /\ pz.out.d = Min(pz.base.d, MonthLength(pz.out.y, pz.out.m))

\* C21 witness: months were subtracted across a year's start and the day
\* was clamped to a shorter month.
C21_Witness ==
  /\ pz.pc = "cal" /\ pz.op = "add_months"
  /\ pz.n < 0
  /\ pz.out.k = "date"
  /\ pz.out.y < pz.base.y
  /\ pz.out.d < pz.base.d

\* The day of a month the k-th occurrence of a weekday falls on: the one
\* day of 7(k-1)+1 .. 7k with that weekday, were the month long enough.
\* The first of month m of year y is a weekday(Date(y, m, 1)).
KthDay(y, m, wd, k) ==
  CHOOSE dd \in 7 * (k - 1) + 1 .. 7 * k :
    (weekday(Date(y, m, 1)) + (dd - 1)) % 7 = wd

\* C22: for every year, month, weekday and ordinal k in 1..5,
\* _nth_weekday_of_month gives the date of that month with the weekday
\* and a day in 7(k-1)+1 .. 7k, and None exactly when that day is past the
\* end of the month; for -1 it gives the date with the weekday among the
\* last 7 days of the month, never None; for any other ordinal None.  An
\* exception is neither.
C22_NthWeekdayOfMonth ==
  (pz.pc = "cal" /\ pz.op = "nth_weekday") =>
    LET y == pz.base.y
        m == pz.base.m
    IN IF pz.n \in 1 .. 5
       THEN IF KthDay(y, m, pz.wd, pz.n) > MonthLength(y, m)
            THEN pz.out = NoDate
            ELSE pz.out = Date(y, m, KthDay(y, m, pz.wd, pz.n))
       ELSE IF pz.n = -1
       THEN /\ pz.out.k = "date"
            /\ pz.out.y = y /\ pz.out.m = m
            /\ pz.out.d \in MonthLength(y, m) - 6 .. MonthLength(y, m)
            /\ weekday(pz.out) = pz.wd
       ELSE pz.out = NoDate

\* The days from today a weekday phrase may resolve to: today .. today+6
\* for the bare name, today+1 .. today+7 after next, today-7 .. today-1
\* after last.
WeekdayWindow(tokens) ==
  IF Len(tokens) = 1 THEN 0 .. 6
  ELSE IF tokens[1] = "next" THEN 1 .. 7
  ELSE -7 .. -1

\* C23: a weekday name, alone or after next or last, resolves to the date
\* of its window that has that weekday, and consumes the phrase.
C23_WeekdayResolution ==
  (pz.pc = "cal" /\ pz.op = "weekday") =>
    /\ ~pz.hit.raised
    /\ pz.hit.consumed = Len(pz.tokens)
    /\ \E off \in WeekdayWindow(pz.tokens) :
         /\ pz.hit.dt = _iso(fromordinal(toordinal(pz.base) + off))
         /\ (toordinal(pz.base) + off + 6) % 7 = pz.wd

\* C23 witness: today is the weekday named; next resolved to the day a
\* week on.
C23_Witness ==
  /\ pz.pc = "cal" /\ pz.op = "weekday"
  /\ Len(pz.tokens) = 2 /\ pz.tokens[1] = "next"
  /\ weekday(pz.base) = pz.wd
  /\ pz.hit.dt = _iso(fromordinal(toordinal(pz.base) + 7))

\* ---- Further claims about the parser, checked in SpecParse.

\* What _parse_date_phrase reports at token k is within the sequence: a
\* date comes with a consumed count of at least 1 that ends no later than
\* the last token.
MatcherWithin(tokens, k, allow_past) ==
  LET found == _parse_date_phrase(tokens, k, pz.today, allow_past)
  IN found.dt # "" => (found.consumed >= 1 /\ k + found.consumed <= Len(tokens))

\* C29: every iteration of the main loop that completes moves the cursor
\* on by at least one token and never past the end; so does the project
\* continuation loop; and every matcher that reports a date, called at any
\* token with either allow_past, reports a consumed count of at least 1
\* that stays within the sequence.
C29_ScanAdvances ==
  /\ (pz.pc = "branch" /\ pz.look.branch # "raise") =>
       /\ pz.look.advance >= 1
       /\ pz.i + pz.look.advance <= Len(pz.tokens)
  /\ Iterated => (pz.at < pz.i /\ pz.i <= Len(pz.tokens))
  /\ pz.pc \in {"loop", "branch"} =>
       \A k \in 0 .. Len(pz.tokens) - 1, allow_past \in BOOLEAN :
         /\ MatcherWithin(pz.tokens, k, allow_past)
         /\ MatcherWithin(<<ColonRestAt(k)>>, 0, allow_past)

\* C29 witness: a date phrase of three or more tokens was consumed up to
\* the last token, and the loop is about to end.
C29_Witness ==
  /\ Iterated
  /\ pz.branch \in DueBranches \cup ScheduledBranches
  /\ pz.i - pz.at >= 3
  /\ pz.i = Len(pz.tokens)

\* a is b with some elements left out: nothing invented, nothing moved.
RECURSIVE IsSubsequence(_, _)
IsSubsequence(a, b) ==
  IF a = <<>> THEN TRUE
  ELSE IF b = <<>> THEN FALSE
  ELSE IF Head(a) = Head(b) THEN IsSubsequence(Tail(a), Tail(b))
  ELSE IsSubsequence(a, Tail(b))

\* One iteration of the main loop, and the return after the last one.
IterationStep == pz.pc = "branch" /\ pz'.pc = "loop"
ReturnStep == pz.pc = "loop" /\ pz'.pc = "done"

\* C30: token conservation.  Every iteration starts at the token the one
\* before stopped at and takes one or more tokens, so each token is taken
\* by exactly one iteration; an iteration either matches metadata or a
\* date, leaving the kept tokens alone, or keeps its single token after
\* those kept before; the loop ends exactly at the end of the tokens; and
\* the title returned is the kept tokens joined by single spaces, a
\* subsequence of the tokens.
C30_TokenConservation ==
  /\ [][/\ IterationStep =>
             /\ pz'.tokens = pz.tokens
             /\ pz'.at = pz.i
             /\ pz'.i > pz.i
             /\ pz'.keep = IF pz.look.branch = "keep"
                           THEN Append(pz.keep, Tok(pz.tokens, pz.i))
                           ELSE pz.keep
             /\ pz.look.branch = "keep" => pz'.i = pz.i + 1
        /\ ReturnStep =>
             /\ pz.i = Len(pz.tokens)
             /\ pz'.title = join(pz.keep)]_vars
  /\ [](pz.pc = "done" =>
          /\ split(pz.title) = pz.keep
          /\ pz.title = join(split(pz.title))
          /\ IsSubsequence(pz.keep, pz.tokens))

\* C30 witness: a parse has returned as title the one token it kept, the
\* last of three or more, the tokens before it having been matched.
C30_Witness ==
  /\ pz.pc = "done"
  /\ Len(pz.tokens) >= 3
  /\ pz.keep = <<Tok(pz.tokens, Len(pz.tokens) - 1)>>
  /\ pz.title = pz.keep[1]
  /\ pz.due # "" \/ pz.scheduled # ""

\* ---- The search flow, _handle_search_mode (list_or_parse_task.py).

\* Lines 776-792 with the rerun of _alfred_output set to None.
_handle_search_mode_NoRerun(tasks_raw, rerun) ==
  IF tasks_raw = <<>> /\ rerun = NoRerun
  THEN [screen |-> "not_ready", launch |-> TRUE, tasks |-> <<>>,
        rerun |-> NoRerun]
  ELSE [screen |-> "results", launch |-> FALSE, tasks |-> tasks_raw,
        rerun |-> rerun]

\* Lines 773-792 and 907: what the script filter shows for the (tasks_raw,
\* rerun) that _fetch_tasks_with_cache returned: the 'API not ready' item
\* with a rerun of 1.0 after _launch_obsidian_best_effort, or the results
\* built from tasks_raw with the controller's rerun.
_handle_search_mode(tasks_raw, rerun) ==
  IF tasks_raw = <<>> /\ rerun = NoRerun
  THEN [screen |-> "not_ready", launch |-> TRUE, tasks |-> <<>>,
        rerun |-> "1.0"]
  ELSE [screen |-> "results", launch |-> FALSE, tasks |-> tasks_raw,
        rerun |-> rerun]

\* What the last invocation put on the screen.
Shown == _handle_search_mode(last.ret_tasks, last.ret_rerun)

\* ---- Claims about the search flow, checked in Spec.

C27_NotReadyOnlyOnFailure ==
  (Returned /\ (Shown.screen = "not_ready" \/ Shown.launch)) =>
    /\ last.calls = 1
    /\ ~last.api.ok
    /\ ~last.seen.is_usable

\* A field of the refresh-state record in file sf; None when absent.
StateField(sf, key) == DictGet(load_refresh_state(sf), key, None)

\* The step is an invocation, started now, whose task listing failed.
FailedFetchStep ==
  /\ last'.now = clock
  /\ clock' = last'.end
  /\ last'.calls = 1
  /\ ~last'.api.ok

\* C28: an invocation whose task listing fails leaves the snapshot file as
\* it was and changes, in the refresh-state record, only last_attempt, which
\* becomes the time the invocation started: refresh_requested, requested_at
\* and last_success keep their values, a field that was absent stays absent.
C28_FailedFetchFrame ==
  [][FailedFetchStep =>
       /\ cacheFile' = cacheFile
       /\ \A key \in {"refresh_requested", "requested_at", "last_success"} :
            StateField(stateFile', key) = StateField(stateFile, key)
       /\ StateField(stateFile', "last_attempt") = Num(clock)
       /\ DOMAIN load_refresh_state(stateFile').v =
            DOMAIN load_refresh_state(stateFile).v \cup {"last_attempt"}]_vars

\* C28 witness: the listing failed while a refresh was requested, and the
\* record still holds the request and the last success.
C28_Witness ==
  /\ last.calls = 1
  /\ ~last.api.ok
  /\ last.state_changed
  /\ last.seen.refresh_requested
  /\ StateField(stateFile, "refresh_requested") = Bool(TRUE)
  /\ StateField(stateFile, "requested_at") # None
  /\ StateField(stateFile, "last_success") # None
  /\ StateField(stateFile, "last_attempt") = Num(last.now)

\* ---- SpecOverlap: invocations A and B that both fetch (case 3, lines
\* 549-560), their steps interleaved, while the tasks of the vault change.
\*   race.server         : the version of the tasks the listing returns now;
\*   race.pc, race.got   : where each invocation is, the version it was given;
\*   race.seq            : the rank of its call of tn.list_tasks (0: none yet);
\*   race.calls          : calls of tn.list_tasks so far;
\*   race.storedSeq, race.storedVer : history, the call whose result the
\*                         snapshot file holds and the version it holds.

\* Number of versions the tasks of the vault go through.
MaxVersions == 2

\* The listing of version v of the vault.
VersionTasks(v) == <<Task(DigitChar(v))>>

InitOverlap ==
  /\ clock = StartTime
  /\ cacheFile = Missing
  /\ stateFile = Missing
  /\ last = NoInvocation
  /\ lastFetch = -1
  /\ status = NoCall
  /\ pz = NoParse
  /\ NoFS
  /\ race = [phase |-> "overlap", server |-> 1, calls |-> 0,
             pc |-> [p \in Racers |-> "idle"],
             seq |-> [p \in Racers |-> 0],
             got |-> [p \in Racers |-> 0],
             storedSeq |-> 0, storedVer |-> 0]

OverlapFrame == UNCHANGED <<last, lastFetch, status, fsVars, pz>>

\* Lines 530-552: p reads the status, takes case 3, records the attempt and
\* calls tn.list_tasks, which reads the vault as it is now.
OverlapCall(p) ==
  /\ race.phase = "overlap"
  /\ race.pc[p] = "idle"
  /\ LET s == get_cache_status(clock, cacheFile, stateFile) IN
     /\ ~s.raised
     /\ Case(s) = "case3"
  /\ stateFile' = mark_fetch_attempt(stateFile, clock)
  /\ race' = [race EXCEPT !.pc[p] = "listing",
                          !.calls = @ + 1,
                          !.seq[p] = race.calls + 1,
                          !.got[p] = race.server]
  /\ UNCHANGED <<clock, cacheFile>>
  /\ OverlapFrame

\* Lines 558-559 and cache.py:174: the listing has answered and p saves
\* the tasks it was given, stamped with the time of the save.
OverlapSave(p) ==
  /\ race.phase = "overlap"
  /\ race.pc[p] = "listing"
  /\ cacheFile' = save_cache(clock, VersionTasks(race.got[p]))
  /\ race' = [race EXCEPT !.pc[p] = "saved",
                          !.storedSeq = race.seq[p],
                          !.storedVer = race.got[p]]
  /\ UNCHANGED <<clock, stateFile>>
  /\ OverlapFrame

\* cache.py:175-178: the rest of mark_fetch_success, then line 560.
OverlapSuccess(p) ==
  /\ race.phase = "overlap"
  /\ race.pc[p] = "saved"
  /\ stateFile' = mark_fetch_success(stateFile, clock)
  /\ race' = [race EXCEPT !.pc[p] = "done"]
  /\ UNCHANGED <<clock, cacheFile>>
  /\ OverlapFrame

\* The user edits the vault: the listing returns a newer version from now on.
VaultChange ==
  /\ race.phase = "overlap"
  /\ race.server < MaxVersions
  /\ race' = [race EXCEPT !.server = @ + 1]
  /\ UNCHANGED <<clock, cacheFile, stateFile>>
  /\ OverlapFrame

\* Wall-clock time passes.
OverlapTick ==
  /\ race.phase = "overlap"
  /\ clock < StartTime + MaxTime
  /\ clock' = clock + 1
  /\ UNCHANGED <<cacheFile, stateFile, race>>
  /\ OverlapFrame

NextOverlap ==
  \/ \E p \in Racers : OverlapCall(p) \/ OverlapSave(p) \/ OverlapSuccess(p)
  \/ VaultChange
  \/ OverlapTick

SpecOverlap == InitOverlap /\ [][NextOverlap]_vars

\* The timestamp of the snapshot file; -1 when there is no snapshot.
SnapshotTime(cf) ==
  IF cf.kind = "json" THEN cf.val.v["timestamp"].v ELSE -1

\* C26: when invocations fetch concurrently and each saves its result, a
\* save never replaces the snapshot by the result of a call issued before
\* the call whose result the snapshot holds, and a snapshot with a later
\* timestamp never holds an older version of the tasks.
C26_NoSnapshotRegression ==
  [][(race.phase = "overlap" /\ cacheFile' # cacheFile) =>
       /\ race'.storedSeq >= race.storedSeq
       /\ SnapshotTime(cacheFile') >= SnapshotTime(cacheFile)
            => race'.storedVer >= race.storedVer]_vars

\* ---- SpecLive: the invocations of the controller for ever.  The code
\* reads a stored time only as a difference from time.time() (cache.py:137,
\* 145), so the passing of a second is modelled from the clock's own frame:
\* the clock stays and every stored time becomes one second older, down to
\* an age past every threshold, beyond which all ages behave alike.

\* The oldest time a file is made to hold.
OldestStamp == clock - (TASK_CACHE_MAX_STALE_SECONDS + 1)

\* A stored time, one second older.
Older(j) ==
  IF j.k = "num" /\ j.v > OldestStamp THEN Num(j.v - 1)
  ELSE IF j.k = "num" /\ j.v > 0 THEN Num(OldestStamp)
  ELSE j

\* A document with the times under keys one second older.
OlderDoc(doc, keys) ==
  Dict([x \in DOMAIN doc.v |-> IF x \in keys THEN Older(doc.v[x]) ELSE doc.v[x]])

OlderFile(f, keys) ==
  IF f.kind = "json" /\ f.val.k = "dict" THEN JsonFile(OlderDoc(f.val, keys))
  ELSE f

\* One whole run of _fetch_tasks_with_cache (lines 516-567) in which the
\* listing, if it is called, answers api within the second.
LiveRun(api) ==
  LET s == get_cache_status(clock, cacheFile, stateFile)
      r == fetch_tasks_with_cache(cacheFile, stateFile, clock, api, 0)
  IN
  /\ ~s.raised
  /\ r.calls = 0 => api = ApiFail
  /\ cacheFile' = r.cf
  /\ stateFile' = r.sf
  /\ lastFetch' = IF r.calls > 0 THEN clock ELSE lastFetch
  /\ last' = [path |-> r.path, prev |-> last.path, now |-> clock,
              end |-> r.end, seen |-> Seen(s),
              ret_tasks |-> r.tasks, ret_rerun |-> r.rerun,
              calls |-> r.calls, api |-> api, prevFetch |-> lastFetch,
              prevSeen |-> IF last.path = "none" THEN "none"
                           ELSE Kind(last.seen),
              cache_changed |-> r.cf # cacheFile,
              state_changed |-> r.sf # stateFile]
  /\ UNCHANGED <<clock, status, race, fsVars, pz>>

\* An invocation whose call of tn.list_tasks succeeds.
LiveFetchOk == \E api \in ApiOutcomes : api.ok /\ LiveRun(api)

\* An invocation that does not call tn.list_tasks, or whose call fails.
LiveReturn == \E api \in ApiOutcomes : ~api.ok /\ LiveRun(api)

\* A second passes.
LiveTick ==
  /\ cacheFile' = OlderFile(cacheFile, {"timestamp"})
  /\ stateFile' = OlderFile(stateFile,
                            {"last_attempt", "requested_at", "last_success"})
  /\ UNCHANGED <<clock, last, lastFetch, status, race, fsVars, pz>>

NextLive == LiveFetchOk \/ LiveReturn \/ LiveTick

\* Invocations keep occurring, time advances, and a listing that is called
\* again and again eventually succeeds.
SpecLive ==
  /\ Init
  /\ [][NextLive]_vars
  /\ WF_vars(LiveTick)
  /\ WF_vars(LiveReturn)
  /\ SF_vars(LiveFetchOk)

\* The last invocation fetched with success and left the snapshot replaced
\* by what it fetched and no refresh requested.
RefreshServed ==
  /\ last.calls = 1
  /\ last.api.ok
  /\ cacheFile = save_cache(last.now, last.api.tasks)
  /\ ~FileRefreshRequested

\* The last invocation ran right after the one that marked the refresh
\* requested, in the same second: the re-run that the mark asked for.
RerunOfMark ==
  /\ Returned
  /\ last.prev = "case1"
  /\ last.seen.refresh_requested
  /\ StateField(stateFile, "requested_at") = Num(last.now)

\* A requested refresh is eventually served by a successful fetch.
RequestedRefreshServed == FileRefreshRequested ~> RefreshServed

\* C25: whenever refresh_requested is true, some later invocation fetches
\* with success, after which the snapshot is replaced and refresh_requested
\* is false; and the re-run asked for by the 'mark requested' step calls the
\* task listing.
C25_RequestedRefreshServed ==
  /\ RequestedRefreshServed
  /\ [](RerunOfMark => last.calls = 1)

====
